---- MODULE Spec2Model ----
(***************************************************************************)
(* Autolist (nish542/AutoList): the client-side listing exporter           *)
(* (frontend/src/lib/exportUtils.ts) and the Listing Editor's download     *)
(* handler (pages/ListingEditor.tsx).                                      *)
(*                                                                         *)
(* Text is modelled as a sequence of items.  A character of listing text   *)
(* is a one-character string; a literal chunk of a template of the source  *)
(* (a CSV label, an HTML tag) is one item holding the whole chunk.         *)
(* exportUtils.ts holds two drifted copies of the exporter: lines 1-616    *)
(* (the copy with the optional fields) and lines 618-1153.  Definitions    *)
(* ending in 2 model the second copy.                                      *)
(***************************************************************************)
EXTENDS Integers, Sequences, FiniteSets, TLC

(***************************************************************************)
(* Bounds of the model.                                                    *)
(***************************************************************************)
\* handleDownload invocations of one Editor session
MaxCalls == 2
\* length of bulletPoints in the listings the encoders are applied to
MaxBullets == 2
\* edits made in the Editor's form in one session
MaxEdits == 1
MaxSlashes == 2
MaxFetches == 2
MaxGenerations == 2

(***************************************************************************)
(* JavaScript values held by the fields of a ListingData record.           *)
(* t is the type tag, v the characters of a string (<<>> otherwise).       *)
(* "absent" marks a key the record does not have.                          *)
(***************************************************************************)
Str(s) == [t |-> "string", v |-> s]
Null == [t |-> "null", v |-> <<>>]
Undefined == [t |-> "undefined", v |-> <<>>]
Absent == [t |-> "absent", v |-> <<>>]

\* listing.key: reading a key the record does not have gives undefined
Get(listing, key) == IF listing[key].t = "absent" THEN Undefined ELSE listing[key]

IsNullish(x) == x.t \in {"null", "undefined"}

\* if (x): a string is truthy when it is not empty; null and undefined are falsy
Truthy(x) == x.t = "string" /\ x.v # <<>>

\* `${x}` : String(x)
ToStr(x) ==
  CASE x.t = "string" -> x.v
    [] x.t = "null" -> <<"n", "u", "l", "l">>
    [] OTHER -> <<"u", "n", "d", "e", "f", "i", "n", "e", "d">>

RECURSIVE Digits(_)
\* `${n}` for a non-negative integer: its decimal digits
Digits(n) ==
  LET d == <<"0", "1", "2", "3", "4", "5", "6", "7", "8", "9">>
  IN IF n < 10 THEN <<d[n + 1]>> ELSE Digits(n \div 10) \o <<d[(n % 10) + 1]>>

RECURSIVE Concat(_)
\* parts.join("")
Concat(parts) == IF parts = <<>> THEN <<>> ELSE Head(parts) \o Concat(Tail(parts))

RECURSIVE Join(_, _)
\* rows.join(sep)
Join(rows, sep) ==
  IF rows = <<>> THEN <<>>
  ELSE IF Len(rows) = 1 THEN rows[1]
  ELSE rows[1] \o sep \o Join(Tail(rows), sep)

RECURSIVE ReplaceAll(_, _, _)
\* s.replace(/c/g, by) for a one-character pattern c
ReplaceAll(s, c, by) ==
  IF s = <<>> THEN <<>>
  ELSE (IF Head(s) = c THEN by ELSE <<Head(s)>>) \o ReplaceAll(Tail(s), c, by)

(***************************************************************************)
(* escapeCSV, escapeHTML (both copies of the file are identical here).     *)
(***************************************************************************)
\* escapeCSV escaping a quote with a backslash
escapeCSVBackslash(str) ==
  IF IsNullish(str) THEN <<>> ELSE ReplaceAll(str.v, "\"", <<"\\", "\"">>)

escapeCSV(str) ==
  IF IsNullish(str) THEN <<>> ELSE ReplaceAll(str.v, "\"", <<"\"", "\"">>)

\* The serialization of a text node (div.textContent = str; div.innerHTML):
\* '&', '<' and '>' become entities, every other character is kept.
SerializeText(s) ==
  ReplaceAll(ReplaceAll(ReplaceAll(s, "&", <<"&", "a", "m", "p", ";">>),
                        "<", <<"&", "l", "t", ";">>),
             ">", <<"&", "g", "t", ";">>)

\* escapeHTML writing the quote characters as entities too
escapeHTMLQuotes(str) ==
  IF IsNullish(str) THEN <<>>
  ELSE ReplaceAll(ReplaceAll(SerializeText(str.v), "\"", <<"&", "q", "u", "o", "t", ";">>),
                  "'", <<"&", "#", "3", "9", ";">>)

escapeHTML(str) ==
  IF IsNullish(str) THEN <<>> ELSE SerializeText(str.v)

(***************************************************************************)
(* The result of a call: the text it produced, or the exception it threw.  *)
(***************************************************************************)
Returned(text) == [threw |-> FALSE, text |-> text]
Threw == [threw |-> TRUE, text |-> <<>>]

(***************************************************************************)
(* exportAsCSV, first copy.                                                *)
(***************************************************************************)
CSVRow(label, value) == <<label, "\"">> \o escapeCSV(value) \o <<"\"">>

\* CSVOptionalRow writing a row for a field that is not there
CSVOptionalRowAlways(listing, key, label) == <<CSVRow(label, Get(listing, key))>>

CSVOptionalRow(listing, key, label) ==
  IF Truthy(Get(listing, key)) THEN <<CSVRow(label, Get(listing, key))>> ELSE <<>>

CSVBulletRows(bulletPoints) ==
  [i \in 1..Len(bulletPoints) |->
     Digits(i) \o <<",", "\"">> \o escapeCSV(Str(bulletPoints[i])) \o <<"\"">>]

CSVRows(listing) ==
  << <<"Field,Value">>,
     CSVRow("Title,", Get(listing, "title")),
     CSVRow("Category,", Get(listing, "category")),
     CSVRow("Price,", Get(listing, "price")) >>
  \o CSVOptionalRow(listing, "color", "Color,")
  \o CSVOptionalRow(listing, "dimensions_size", "Dimensions/Size,")
  \o CSVOptionalRow(listing, "weight", "Weight,")
  \o CSVOptionalRow(listing, "primary_use", "Primary Use/Purpose,")
  \o CSVOptionalRow(listing, "included_items", "Included Items,")
  \o << CSVRow("Keywords,", Get(listing, "keywords")),
        <<>>,
        <<"Description">>,
        <<"\"">> \o escapeCSV(Get(listing, "description")) \o <<"\"">>,
        <<>>,
        <<"Bullet Points">> >>
  \o CSVBulletRows(listing.bulletPoints)

exportAsCSV(listing) == Returned(Join(CSVRows(listing), <<"\n">>))

(***************************************************************************)
(* exportAsCSV, second copy: Keywords precedes Color, no other optional    *)
(* row, bullet rows of the form "N. text".                                 *)
(***************************************************************************)
CSVBulletRows2(bulletPoints) ==
  [i \in 1..Len(bulletPoints) |->
     <<"\"">> \o Digits(i) \o <<".", " ">> \o escapeCSV(Str(bulletPoints[i])) \o <<"\"">>]

CSVRows2(listing) ==
  << <<"Field,Value">>,
     CSVRow("Title,", Get(listing, "title")),
     CSVRow("Category,", Get(listing, "category")),
     CSVRow("Price,", Get(listing, "price")),
     CSVRow("Keywords,", Get(listing, "keywords")) >>
  \o CSVOptionalRow(listing, "color", "Color,")
  \o << <<>>,
        <<"Description">>,
        <<"\"">> \o escapeCSV(Get(listing, "description")) \o <<"\"">>,
        <<>>,
        <<"Bullet Points">> >>
  \o CSVBulletRows2(listing.bulletPoints)

exportAsCSV2(listing) == Returned(Join(CSVRows2(listing), <<"\n">>))

(***************************************************************************)
(* String helpers of the HTML export and of the PDF template.              *)
(***************************************************************************)
RECURSIVE Split(_, _)
\* s.split(c): the segments between the occurrences of c (always at least one)
Split(s, c) ==
  IF \A i \in 1..Len(s) : s[i] # c THEN <<s>>
  ELSE LET k == CHOOSE i \in 1..Len(s) : s[i] = c /\ \A j \in 1..(i - 1) : s[j] # c
       IN <<SubSeq(s, 1, k - 1)>> \o Split(SubSeq(s, k + 1, Len(s)), c)

WhiteSpace == {" ", "\n", "\t", "\r"}

RECURSIVE TrimStart(_)
TrimStart(s) ==
  IF s # <<>> /\ Head(s) \in WhiteSpace THEN TrimStart(Tail(s)) ELSE s

RECURSIVE TrimEnd(_)
TrimEnd(s) ==
  IF s # <<>> /\ s[Len(s)] \in WhiteSpace THEN TrimEnd(SubSeq(s, 1, Len(s) - 1)) ELSE s

\* keyword.trim()
Trim(s) == TrimEnd(TrimStart(s))

\* new Date().toLocaleDateString() and new Date().toLocaleString(): the text of
\* the clock at export time, one opaque item each
LocaleDate == <<"toLocaleDateString()">>
LocaleDateTime == <<"toLocaleString()">>

(***************************************************************************)
(* exportAsHTML, first copy.  The items are the chunks of the template     *)
(* literal; the white space between tags and the text of the <style>       *)
(* block are left out.                                                     *)
(***************************************************************************)
HTMLMetaItem(label, value) ==
  <<"<div class=\"meta-item\">", "<span class=\"meta-label\">", label, "</span>",
    "<span class=\"meta-value\">">> \o value \o <<"</span>", "</div>">>

HTMLOptionalItem(listing, key, label) ==
  IF Truthy(Get(listing, key))
  THEN HTMLMetaItem(label, escapeHTML(Get(listing, key)))
  ELSE <<>>

HTMLHead(listing) ==
  <<"<!DOCTYPE html>", "<html lang=\"en\">", "<head>", "<meta charset=\"UTF-8\">",
    "<meta name=\"viewport\" content=\"width=device-width, initial-scale=1.0\">",
    "<title>">> \o escapeHTML(Get(listing, "title"))
  \o <<"</title>", "<style>", "</style>", "</head>">>

\* HTMLHeader with the title interpolated as it is
HTMLHeaderRaw(listing) ==
  <<"<div class=\"header\">", "<h1>">> \o ToStr(Get(listing, "title"))
  \o <<"</h1>", "</div>">>

HTMLHeader(listing) ==
  <<"<div class=\"header\">", "<h1>">> \o escapeHTML(Get(listing, "title"))
  \o <<"</h1>", "</div>">>

HTMLMetaInfo(listing) ==
  <<"<div class=\"meta-info\">">>
  \o HTMLMetaItem("Category", escapeHTML(Get(listing, "category")))
  \o HTMLMetaItem("Price", <<"$">> \o escapeHTML(Get(listing, "price")))
  \o HTMLOptionalItem(listing, "color", "Dominant Color")
  \o HTMLOptionalItem(listing, "dimensions_size", "Dimensions/Size")
  \o HTMLOptionalItem(listing, "weight", "Weight")
  \o HTMLOptionalItem(listing, "primary_use", "Primary Use/Purpose")
  \o HTMLOptionalItem(listing, "included_items", "Included Items")
  \o HTMLMetaItem("Generated On", LocaleDate)
  \o <<"</div>">>

\* HTMLDescription with the line breaks replaced before the escaping
HTMLDescriptionBreaksFirst(listing) ==
  <<"<div class=\"section\">", "<h2>", "Description", "</h2>", "<div class=\"description\">">>
  \o (IF IsNullish(Get(listing, "description")) THEN <<>>
      ELSE SerializeText(ReplaceAll(Get(listing, "description").v, "\n",
                                    <<"<", "b", "r", ">">>)))
  \o <<"</div>", "</div>">>

HTMLDescription(listing) ==
  <<"<div class=\"section\">", "<h2>", "Description", "</h2>", "<div class=\"description\">">>
  \o ReplaceAll(escapeHTML(Get(listing, "description")), "\n", <<"<br>">>)
  \o <<"</div>", "</div>">>

\* HTMLBullets writing the items from the last bullet to the first
HTMLBulletsReversed(listing) ==
  <<"<div class=\"section\">", "<h2>", "Key Features", "</h2>", "<ul class=\"bullet-points\">">>
  \o Concat([i \in 1..Len(listing.bulletPoints) |->
               <<"<li>">>
               \o escapeHTML(Str(listing.bulletPoints[Len(listing.bulletPoints) + 1 - i]))
               \o <<"</li>">>])
  \o <<"</ul>", "</div>">>

HTMLBullets(listing) ==
  <<"<div class=\"section\">", "<h2>", "Key Features", "</h2>", "<ul class=\"bullet-points\">">>
  \o Concat([i \in 1..Len(listing.bulletPoints) |->
               <<"<li>">> \o escapeHTML(Str(listing.bulletPoints[i])) \o <<"</li>">>])
  \o <<"</ul>", "</div>">>

\* HTMLKeywordTags leaving out the empty segments
HTMLKeywordTagsFiltered(keywords) ==
  LET segments == SelectSeq(Split(keywords.v, ","), LAMBDA x : Trim(x) # <<>>)
  IN Concat([i \in 1..Len(segments) |->
               <<"<span class=\"keyword-tag\">">> \o escapeHTML(Str(Trim(segments[i])))
               \o <<"</span>">>])

\* listing.keywords.split(",").map(...).join(""); the caller has checked that
\* keywords is a string
HTMLKeywordTags(keywords) ==
  LET segments == Split(keywords.v, ",")
  IN Concat([i \in 1..Len(segments) |->
               <<"<span class=\"keyword-tag\">">> \o escapeHTML(Str(Trim(segments[i])))
               \o <<"</span>">>])

HTMLKeywords(listing) ==
  <<"<div class=\"section\">", "<h2>", "Search Keywords", "</h2>", "<div class=\"keywords\">">>
  \o HTMLKeywordTags(Get(listing, "keywords"))
  \o <<"</div>", "</div>">>

HTMLFooter ==
  <<"<div class=\"footer\">", "<p>", "Amazon Listing Generated - ">> \o LocaleDateTime
  \o <<"</p>", "</div>">>

\* listing.keywords.split throws a TypeError when keywords is null or undefined
exportAsHTML(listing) ==
  IF IsNullish(Get(listing, "keywords")) THEN Threw
  ELSE Returned(HTMLHead(listing) \o <<"<body>", "<div class=\"container\">">>
                \o HTMLHeader(listing) \o HTMLMetaInfo(listing)
                \o HTMLDescription(listing) \o HTMLBullets(listing)
                \o HTMLKeywords(listing) \o HTMLFooter
                \o <<"</div>", "</body>", "</html>">>)

(***************************************************************************)
(* exportAsHTML, second copy: Dominant Color is the only optional item.    *)
(***************************************************************************)
HTMLMetaInfo2(listing) ==
  <<"<div class=\"meta-info\">">>
  \o HTMLMetaItem("Category", escapeHTML(Get(listing, "category")))
  \o HTMLMetaItem("Price", <<"$">> \o escapeHTML(Get(listing, "price")))
  \o HTMLOptionalItem(listing, "color", "Dominant Color")
  \o HTMLMetaItem("Generated On", LocaleDate)
  \o <<"</div>">>

exportAsHTML2(listing) ==
  IF IsNullish(Get(listing, "keywords")) THEN Threw
  ELSE Returned(HTMLHead(listing) \o <<"<body>", "<div class=\"container\">">>
                \o HTMLHeader(listing) \o HTMLMetaInfo2(listing)
                \o HTMLDescription(listing) \o HTMLBullets(listing)
                \o HTMLKeywords(listing) \o HTMLFooter
                \o <<"</div>", "</body>", "</html>">>)

(***************************************************************************)
(* ListingData records: a function from the keys, in insertion order, to   *)
(* their values.  bulletPoints is an array of strings; every other key     *)
(* holds a JavaScript value or is absent.  "extra" stands for a key of the *)
(* open extension [key: string]: any.                                      *)
(***************************************************************************)
ObjectKeys ==
  <<"title", "description", "bulletPoints", "keywords", "price", "category", "color",
    "dimensions_size", "weight", "primary_use", "included_items", "extra">>

KeySet == {ObjectKeys[i] : i \in 1..Len(ObjectKeys)}

(***************************************************************************)
(* JSON.stringify(listing, null, 2): the members in insertion order, keys  *)
(* whose value is undefined left out, two spaces of indentation per level. *)
(* A key's name is one item.                                               *)
(***************************************************************************)
\* JSONEscapeChar leaving the double quote as it is
JSONEscapeCharNoQuote(c) ==
  CASE c = "\\" -> <<"\\", "\\">>
    [] c = "\n" -> <<"\\", "n">>
    [] OTHER -> <<c>>

JSONEscapeChar(c) ==
  CASE c = "\"" -> <<"\\", "\"">>
    [] c = "\\" -> <<"\\", "\\">>
    [] c = "\n" -> <<"\\", "n">>
    [] c = "\t" -> <<"\\", "t">>
    [] c = "\r" -> <<"\\", "r">>
    [] OTHER -> <<c>>

JSONQuote(s) ==
  <<"\"">> \o Concat([i \in 1..Len(s) |-> JSONEscapeChar(s[i])]) \o <<"\"">>

JSONArray(arr) ==
  IF arr = <<>> THEN <<"[", "]">>
  ELSE <<"[", "\n">>
       \o Join([i \in 1..Len(arr) |-> <<" ", " ", " ", " ">> \o JSONQuote(arr[i])],
               <<",", "\n">>)
       \o <<"\n", " ", " ", "]">>

JSONValue(listing, key) ==
  IF key = "bulletPoints" THEN JSONArray(listing[key])
  ELSE IF listing[key].t = "null" THEN <<"n", "u", "l", "l">>
  ELSE JSONQuote(listing[key].v)

JSONOmitted(listing, key) ==
  key # "bulletPoints" /\ listing[key].t \in {"absent", "undefined"}

RECURSIVE JSONMembers(_, _)
JSONMembers(listing, keys) ==
  IF keys = <<>> THEN <<>>
  ELSE (IF JSONOmitted(listing, Head(keys)) THEN <<>>
        ELSE << <<" ", " ", "\"", Head(keys), "\"", ":", " ">>
                \o JSONValue(listing, Head(keys)) >>)
       \o JSONMembers(listing, Tail(keys))

JSONStringify(listing) ==
  LET members == JSONMembers(listing, ObjectKeys)
  IN IF members = <<>> THEN <<"{", "}">>
     ELSE <<"{", "\n">> \o Join(members, <<",", "\n">>) \o <<"\n", "}">>

exportAsJSON(listing) == Returned(JSONStringify(listing))

(***************************************************************************)
(* JSON.parse, for the texts a listing serializes to: an object whose      *)
(* members are strings, null, or (bulletPoints) an array of strings.       *)
(* Every parser returns [ok, val, next]: whether it accepted, the value    *)
(* read, and the position after it.                                        *)
(***************************************************************************)
ParseFail == [ok |-> FALSE, val |-> <<>>, next |-> 0]

RECURSIVE SkipWs(_, _)
SkipWs(s, i) == IF i <= Len(s) /\ s[i] \in WhiteSpace THEN SkipWs(s, i + 1) ELSE i

At(s, i, c) == i <= Len(s) /\ s[i] = c

RECURSIVE ParseChars(_, _, _)
\* the characters of a string up to its closing quote, escapes undone
ParseChars(s, i, acc) ==
  IF i > Len(s) THEN ParseFail
  ELSE IF s[i] = "\"" THEN [ok |-> TRUE, val |-> acc, next |-> i + 1]
  ELSE IF s[i] \in {"\n", "\t", "\r"} THEN ParseFail
  ELSE IF s[i] = "\\"
       THEN IF i + 1 > Len(s) THEN ParseFail
            ELSE IF s[i + 1] \in {"\"", "\\", "/"}
                 THEN ParseChars(s, i + 2, Append(acc, s[i + 1]))
            ELSE IF s[i + 1] = "n" THEN ParseChars(s, i + 2, Append(acc, "\n"))
            ELSE IF s[i + 1] = "t" THEN ParseChars(s, i + 2, Append(acc, "\t"))
            ELSE IF s[i + 1] = "r" THEN ParseChars(s, i + 2, Append(acc, "\r"))
            ELSE ParseFail
  ELSE ParseChars(s, i + 1, Append(acc, s[i]))

ParseString(s, i) == IF At(s, i, "\"") THEN ParseChars(s, i + 1, <<>>) ELSE ParseFail

RECURSIVE ParseElements(_, _, _)
\* the elements of a non-empty array, from the first one
ParseElements(s, i, acc) ==
  LET e == ParseString(s, i)
      j == SkipWs(s, e.next)
  IN IF ~e.ok THEN ParseFail
     ELSE IF At(s, j, ",") THEN ParseElements(s, SkipWs(s, j + 1), Append(acc, e.val))
     ELSE IF At(s, j, "]") THEN [ok |-> TRUE, val |-> Append(acc, e.val), next |-> j + 1]
     ELSE ParseFail

ParseArray(s, i) ==
  IF ~At(s, i, "[") THEN ParseFail
  ELSE LET j == SkipWs(s, i + 1)
       IN IF At(s, j, "]") THEN [ok |-> TRUE, val |-> <<>>, next |-> j + 1]
          ELSE ParseElements(s, j, <<>>)

ParseScalar(s, i) ==
  IF At(s, i, "n") /\ At(s, i + 1, "u") /\ At(s, i + 2, "l") /\ At(s, i + 3, "l")
  THEN [ok |-> TRUE, val |-> Null, next |-> i + 4]
  ELSE LET r == ParseString(s, i)
       IN IF r.ok THEN [ok |-> TRUE, val |-> Str(r.val), next |-> r.next] ELSE ParseFail

\* {} : the record with no key
EmptyObject == [k \in KeySet |-> IF k = "bulletPoints" THEN <<>> ELSE Absent]

RECURSIVE ParseMembers(_, _, _, _)
\* the members of a non-empty object, from the first one; seen are the keys read
ParseMembers(s, i, obj, seen) ==
  LET k == ParseString(s, i)
      c == SkipWs(s, k.next)
      key == k.val[1]
      m == IF key = "bulletPoints" THEN ParseArray(s, SkipWs(s, c + 1))
           ELSE ParseScalar(s, SkipWs(s, c + 1))
      j == SkipWs(s, m.next)
  IN IF ~k.ok \/ Len(k.val) # 1 \/ ~At(s, c, ":") THEN ParseFail
     ELSE IF key \notin KeySet \/ ~m.ok THEN ParseFail
     ELSE IF At(s, j, ",")
          THEN ParseMembers(s, SkipWs(s, j + 1), [obj EXCEPT ![key] = m.val],
                            seen \cup {key})
     ELSE IF At(s, j, "}")
          THEN [ok |-> TRUE,
                val |-> [obj |-> [obj EXCEPT ![key] = m.val], keys |-> seen \cup {key}],
                next |-> j + 1]
     ELSE ParseFail

\* JSON.parse(text): [ok, val |-> [obj, keys]] with obj the record read and keys
\* the keys the text holds; not ok when the text is rejected (a SyntaxError)
JSONParse(text) ==
  LET i == SkipWs(text, 1)
      j == SkipWs(text, i + 1)
      r == IF ~At(text, i, "{") THEN ParseFail
           ELSE IF At(text, j, "}")
                THEN [ok |-> TRUE, val |-> [obj |-> EmptyObject, keys |-> {}],
                      next |-> j + 1]
           ELSE ParseMembers(text, j, EmptyObject, {})
  IN IF r.ok /\ SkipWs(text, r.next) = Len(text) + 1 THEN r ELSE ParseFail

\* the own enumerable keys of a record
OwnKeys(listing) ==
  {k \in KeySet : k = "bulletPoints" \/ listing[k].t # "absent"}

\* a and b are deep-equal: the same own keys, holding equal values
DeepEqual(parsed, listing) ==
  /\ parsed.ok
  /\ parsed.val.keys = OwnKeys(listing)
  /\ parsed.val.obj = listing

(***************************************************************************)
(* createPDFTemplate, first copy: the fragment built with DOM calls.       *)
(* The fragment is the record of its sections' text contents.              *)
(***************************************************************************)
\* node.textContent = x : null and undefined give the empty text
TextContent(x) == IF IsNullish(x) THEN <<>> ELSE x.v

PDFOptionalItem(listing, key, label) ==
  IF Truthy(Get(listing, key))
  THEN << [label |-> label, value |-> TextContent(Get(listing, key))] >>
  ELSE <<>>

PDFMetaItems(listing) ==
  << [label |-> "Category", value |-> TextContent(Get(listing, "category"))],
     [label |-> "Price", value |-> <<"$">> \o ToStr(Get(listing, "price"))] >>
  \o PDFOptionalItem(listing, "color", "Dominant Color")
  \o PDFOptionalItem(listing, "dimensions_size", "Dimensions/Size")
  \o PDFOptionalItem(listing, "weight", "Weight")
  \o PDFOptionalItem(listing, "primary_use", "Primary Use/Purpose")
  \o PDFOptionalItem(listing, "included_items", "Included Items")
  \o << [label |-> "Generated On", value |-> LocaleDate] >>

PDFKeywordTags(keywords) ==
  LET segments == Split(keywords.v, ",")
  IN [i \in 1..Len(segments) |-> Trim(segments[i])]

\* the glyph U+2713 of the span inserted before a bullet's text
CheckMark == "U+2713"

NoFragment ==
  [sections |-> <<>>, title |-> <<>>, meta |-> <<>>, description |-> <<>>,
   bullets |-> <<>>, keywords |-> <<>>, footer |-> <<>>]

\* the children appended to the wrapper, in order: the h1, the spacer, the meta
\* section, the three sections made by createSection under their headings, the
\* footer
PDFSections ==
  <<"h1", "spacer", "meta", "Description", "Key Features", "Search Keywords", "footer">>

\* listing.keywords.split throws a TypeError when keywords is null or undefined
createPDFTemplate(listing) ==
  IF IsNullish(Get(listing, "keywords")) THEN [threw |-> TRUE, node |-> NoFragment]
  ELSE [threw |-> FALSE,
        node |-> [sections |-> PDFSections,
                  title |-> TextContent(Get(listing, "title")),
                  meta |-> PDFMetaItems(listing),
                  description |-> TextContent(Get(listing, "description")),
                  bullets |-> [i \in 1..Len(listing.bulletPoints) |->
                                 <<CheckMark>> \o listing.bulletPoints[i]],
                  keywords |-> PDFKeywordTags(Get(listing, "keywords")),
                  footer |-> <<"Amazon Listing Generated - ">> \o LocaleDateTime]]

(***************************************************************************)
(* Input sets.                                                             *)
(***************************************************************************)
Listing(title, description, bulletPoints, keywords, price, category) ==
  [title |-> Str(title), description |-> Str(description),
   bulletPoints |-> bulletPoints, keywords |-> Str(keywords), price |-> Str(price),
   category |-> Str(category), color |-> Absent, dimensions_size |-> Absent,
   weight |-> Absent, primary_use |-> Absent, included_items |-> Absent,
   extra |-> Absent]

\* {title:"Mug", description:"Nice mug", bulletPoints:["Durable"],
\*  keywords:"mug,kitchen", price:"9.99", category:"Home"}, in short texts
MugListing ==
  Listing(<<"M">>, <<"N", " ", "m">>, << <<"D">> >>, <<"m", ",", "k">>,
          <<"9", ".", "9">>, <<"H">>)

\* the same listing with every optional field and an extension field supplied
FullListing ==
  [MugListing EXCEPT !.color = Str(<<"r">>), !.dimensions_size = Str(<<"1", "x", "2">>),
                     !.weight = Str(<<"3", "g">>), !.primary_use = Str(<<"t">>),
                     !.included_items = Str(<<"l">>), !.extra = Str(<<"e">>)]

\* the values a field is varied over
FieldValues ==
  {Absent, Undefined, Null, Str(<<>>),
   Str(<<"a", "\"", "b">>),
   Str(<<"<", "b", ">", "&", "'">>),
   Str(<<"a", ",", " ", "b", " ", ",", "c">>),
   Str(<<"x", "\n", "\\", "y", ",">>),
   Str(<<"<", "i", ">", "\n", "&">>)}

BulletTexts == {<<"D">>, <<"\"", "<", "\n">>}

RECURSIVE SeqsUpTo(_, _)
\* the sequences over S of length at most n
SeqsUpTo(S, n) ==
  IF n = 0 THEN {<<>>}
  ELSE LET shorter == SeqsUpTo(S, n - 1)
       IN shorter \cup {Append(q, x) : q \in {r \in shorter : Len(r) = n - 1}, x \in S}

StringKeys == KeySet \ {"bulletPoints"}

\* one change of a listing: a key and the value put there
Variations ==
  {<<k, x>> : k \in StringKeys, x \in FieldValues}
    \cup {<<"bulletPoints", b>> : b \in SeqsUpTo(BulletTexts, MaxBullets)}

Vary(listing, p) == [listing EXCEPT ![p[1]] = p[2]]

\* the listings the encoders are applied to: the two base listings with at most
\* two keys changed
Listings ==
  {Vary(Vary(base, p), q) : base \in {MugListing, FullListing},
                            p \in Variations, q \in Variations}

(***************************************************************************)
(* The Listing Editor session: the page, the PDF exports in flight and the *)
(* notifications shown.                                                    *)
(***************************************************************************)
VARIABLES
  listing,      \* the Editor's listing record (useState)
  editor,       \* which ListingEditor holds it: 1 is pages/ListingEditor.tsx, 2 the
                \* one with the inputs of the optional fields
  edits,        \* the number of edits made in the Editor's form
  html2pdf,     \* window.html2pdf is set
  head,         \* the script elements appended to document.head, by creating call
  body,         \* the children of document.body: the fragment of call c is node c,
                \* the link downloadFile makes for call c is node -c
  pc,           \* where each handleDownload invocation stands
  fmt,          \* the format each invocation was asked for
  arg,          \* the listing each invocation handed to its exporter
  tempElement,  \* exportAsPDF's tempElement: 0 is null, c the fragment of call c
  invoked,      \* the conversion routine was invoked by this call
  completed,    \* the conversion routine's save() completed for this call
  outcome,      \* how the call's export settled, and the error it threw
  toasts,       \* the notifications each invocation produced
  saved,        \* the files handed to the browser
  objectURLs,   \* the object URLs created and not revoked
  created,      \* the number of object URLs created so far
  clicks,       \* the activations of downloadFile's links
  encIn,        \* the listing an encoder is applied to
  encOp,        \* the encoder applied
  encOut,       \* what it returned
  encNode,      \* the fragment createPDFTemplate returned
  apiBase,      \* API_BASE
  apiInput,     \* the input apiFetch is called with
  apiUrl,       \* the URL apiFetch handed to fetch
  posts,        \* the Dashboard's posts (useState)
  loading,      \* the Dashboard's loading (useState)
  generatingId, \* the Dashboard's generatingId (useState)
  fetches,      \* where each fetchInstagramPosts invocation stands
  gen,          \* each generateListing invocation: where it stands, its post, the
                \* request it sent and the response it got
  navigations,  \* the calls of navigate
  notices       \* the Dashboard's notifications

vars ==
  <<listing, editor, edits, html2pdf, head, body, pc, fmt, arg, tempElement, invoked, completed, outcome,
    toasts, saved, objectURLs, created, clicks, encIn, encOp, encOut, encNode,
    apiBase, apiInput, apiUrl, posts, loading, generatingId, fetches, gen, navigations,
    notices>>

form == <<listing, editor, edits>>
page == <<html2pdf, head, body>>
calls == <<pc, fmt, arg, tempElement, invoked, completed, outcome, toasts, saved>>
enc == <<encIn, encOp, encOut, encNode>>
download == <<objectURLs, created, clicks>>
api == <<apiBase, apiInput, apiUrl>>
dash == <<posts, loading, generatingId, fetches, gen, navigations, notices>>

Calls == 1..MaxCalls

\* a thrown value: an Error with its message, or a value that is no Error
Error(message) == [isError |-> TRUE, message |-> message]
NonError(x) == [isError |-> FALSE, message |-> x]
NoError == NonError("")

\* the TypeError of reading a property of null or undefined
TypeError == Error("Cannot read properties of null")

\* what the conversion routine html2pdf().set().from().save() may throw or
\* reject with
ThrownValues == {Error("canvas failed"), Error("out of memory"), NonError("aborted")}

\* how exportAsPDF settled: caught is the value its catch block received, error
\* the value it threw on to its caller
Pending == [state |-> "pending", caught |-> NoError, error |-> NoError]
Resolved == [state |-> "resolved", caught |-> NoError, error |-> NoError]

\* the listings the Editor session holds
EditorListings == {MugListing, FullListing}

\* parent.removeChild(node)
RemoveChild(children, node) == SelectSeq(children, LAMBDA n : n # node)

IsChild(children, node) == \E i \in 1..Len(children) : children[i] = node

\* the link element downloadFile creates in call c
Link(c) == 0 - c

\* the part of the page downloadFile works on
DOM(children, urls, count, activations) ==
  [body |-> children, objectURLs |-> urls, created |-> count, clicks |-> activations]

\* downloadFile without the revocation
downloadFileNoRevoke(dom, c) ==
  LET url == dom.created + 1
      bound == [dom EXCEPT !.created = url, !.objectURLs = @ \cup {url}]
      attached == [bound EXCEPT !.body = Append(@, Link(c))]
      clicked == [attached EXCEPT !.clicks =
                    Append(@, [by |-> c, href |-> url,
                               attached |-> IsChild(attached.body, Link(c)),
                               live |-> url \in attached.objectURLs])]
  IN [clicked EXCEPT !.body = RemoveChild(@, Link(c))]

\* downloadFile(blob, filename) in call c: createObjectURL, createElement("a")
\* with href and download set, appendChild, click, removeChild,
\* revokeObjectURL; a click records whether the link was attached and its URL
\* not yet revoked
downloadFile(dom, c) ==
  LET url == dom.created + 1
      bound == [dom EXCEPT !.created = url, !.objectURLs = @ \cup {url}]
      attached == [bound EXCEPT !.body = Append(@, Link(c))]
      clicked == [attached EXCEPT !.clicks =
                    Append(@, [by |-> c, href |-> url,
                               attached |-> IsChild(attached.body, Link(c)),
                               live |-> url \in attached.objectURLs])]
      detached == [clicked EXCEPT !.body = RemoveChild(@, Link(c))]
  IN [detached EXCEPT !.objectURLs = @ \ {url}]

\* CatchRethrow with every caught value replaced by the one fallback message
CatchRethrowGeneric(error) == Error("Failed to generate PDF. Please try again.")

\* exportAsPDF's catch block: the Error thrown on to the caller
CatchRethrow(error) ==
  Error(IF error.isError THEN error.message
        ELSE "Failed to generate PDF. Please try again.")

\* Finally without the removal
FinallyKeepsFragment(children, temp) == children

\* Finally removing every fragment there is
FinallyRemovesAll(children, temp) == SelectSeq(children, LAMBDA n : n <= 0)

\* exportAsPDF's finally block: document.body after it
Finally(children, temp) ==
  IF temp # 0 /\ IsChild(children, temp) THEN RemoveChild(children, temp) ELSE children

Rejected(caught) == [state |-> "rejected", caught |-> caught, error |-> CatchRethrow(caught)]

\* LoadHtml2PdfHead without the check for a library already loaded
LoadHtml2PdfHeadAlways(loaded, scripts, c) == Append(scripts, c)

\* loadHtml2Pdf's executor: document.head after it
LoadHtml2PdfHead(loaded, scripts, c) == IF loaded THEN scripts ELSE Append(scripts, c)

\* handleDownload's catch block: the notification shown
ErrorToast(error) ==
  [kind |-> "error",
   message |-> IF error.isError THEN error.message ELSE "Failed to download listing"]

SuccessToast(format) ==
  [kind |-> "success",
   message |-> CASE format = "json" -> "Downloaded as JSON"
                 [] format = "csv" -> "Downloaded as CSV"
                 [] format = "html" -> "Downloaded as HTML"
                 [] OTHER -> "Downloaded as PDF"]

\* Notify with a catch block that only logs
NotifySilentCatch(shown, settled) ==
  IF settled.state = "resolved" THEN Append(shown, SuccessToast("pdf")) ELSE shown

\* handleDownload after await exportAsPDF(): the notifications, with the success
\* notification or the catch block's added
Notify(shown, settled) ==
  Append(shown, IF settled.state = "resolved" THEN SuccessToast("pdf")
                ELSE ErrorToast(settled.error))

\* the exporter handleDownload's switch calls for a synchronous format
Export(format, l) ==
  CASE format = "json" -> exportAsJSON(l)
    [] format = "csv" -> exportAsCSV(l)
    [] OTHER -> exportAsHTML(l)

SessionInit ==
  /\ edits = 0
  /\ html2pdf = FALSE
  /\ head = <<>>
  /\ body = <<>>
  /\ pc = [c \in Calls |-> "idle"]
  /\ fmt = [c \in Calls |-> "none"]
  /\ arg = [c \in Calls |-> EmptyObject]
  /\ tempElement = [c \in Calls |-> 0]
  /\ invoked = [c \in Calls |-> FALSE]
  /\ completed = [c \in Calls |-> FALSE]
  /\ outcome = [c \in Calls |-> Pending]
  /\ toasts = [c \in Calls |-> <<>>]
  /\ saved = <<>>
  /\ objectURLs = {}
  /\ created = 0
  /\ clicks = <<>>

EncInit ==
  /\ encOp = "none"
  /\ encOut = Returned(<<>>)
  /\ encNode = NoFragment

\* apiFetch not called
NotFetched == [called |-> FALSE, url |-> <<>>]

ApiIdle ==
  /\ apiBase = <<>>
  /\ apiInput = <<>>
  /\ apiUrl = NotFetched

Fetches == 1..MaxFetches
Generations == 1..MaxGenerations

\* an InstagramPost of the Graph API: caption and media_url may be left out
InstagramPost(id, caption, media_type, media_url) ==
  [id |-> id, caption |-> caption, media_type |-> media_type, media_url |-> media_url]

NoPost == InstagramPost(Null, Undefined, "", Undefined)

\* a generateListing invocation not started: where it stands, its post, how
\* the fetch of the image settled, the payload handed to the API client and
\* how the request settled
NoPayload == [text_content |-> <<>>, images |-> "none"]
NoResponse == [kind |-> "none", ok |-> FALSE, json |-> FALSE, success |-> FALSE, error |-> ""]

NoGeneration ==
  [pc |-> "idle", post |-> NoPost, image |-> "none", payload |-> NoPayload,
   response |-> NoResponse]

\* the Dashboard as mounted: useState([]), useState(false), useState(null)
DashboardInit ==
  /\ posts = <<>>
  /\ loading = FALSE
  /\ generatingId = Null
  /\ fetches = [f \in Fetches |-> "idle"]
  /\ gen = [g \in Generations |-> NoGeneration]
  /\ navigations = <<>>
  /\ notices = [fetch |-> [f \in Fetches |-> <<>>], gen |-> [g \in Generations |-> <<>>]]

Init ==
  /\ listing \in EditorListings
  /\ editor = 2
  /\ SessionInit
  /\ encIn = MugListing
  /\ EncInit
  /\ ApiIdle
  /\ DashboardInit

\* invocations start in the order of their numbers
CanStart(c) == pc[c] = "idle" /\ \A d \in Calls : d < c => pc[d] # "idle"

\* exportAsPDF settles with a rejection: the catch block wraps the error and the
\* finally block runs
Reject(c, error) ==
  /\ body' = Finally(body, tempElement[c])
  /\ outcome' = [outcome EXCEPT ![c] = Rejected(error)]
  /\ pc' = [pc EXCEPT ![c] = "settled"]

\* HandleDownloadSync loading the PDF library as a PDF export does
HandleDownloadSyncLoads(c, format) ==
  /\ CanStart(c)
  /\ fmt' = [fmt EXCEPT ![c] = format]
  /\ arg' = [arg EXCEPT ![c] = listing]
  /\ pc' = [pc EXCEPT ![c] = "done"]
  /\ LET r == Export(format, listing)
         dom == downloadFile(DOM(body, objectURLs, created, clicks), c)
     IN IF r.threw
        THEN /\ toasts' = [toasts EXCEPT ![c] = Append(@, ErrorToast(TypeError))]
             /\ UNCHANGED <<saved, body, download>>
        ELSE /\ toasts' = [toasts EXCEPT ![c] = Append(@, SuccessToast(format))]
             /\ saved' = Append(saved, [by |-> c, format |-> format, text |-> r.text])
             /\ body' = dom.body
             /\ objectURLs' = dom.objectURLs
             /\ created' = dom.created
             /\ clicks' = dom.clicks
  /\ head' = LoadHtml2PdfHead(html2pdf, head, c)
  /\ UNCHANGED <<api, dash, form, html2pdf, tempElement, invoked, completed, outcome, enc>>

\* handleDownload("json" | "csv" | "html"): the export, with its downloadFile
\* call, and its notification
HandleDownloadSync(c, format) ==
  /\ CanStart(c)
  /\ fmt' = [fmt EXCEPT ![c] = format]
  /\ arg' = [arg EXCEPT ![c] = listing]
  /\ pc' = [pc EXCEPT ![c] = "done"]
  /\ LET r == Export(format, listing)
         dom == downloadFile(DOM(body, objectURLs, created, clicks), c)
     IN IF r.threw
        THEN /\ toasts' = [toasts EXCEPT ![c] = Append(@, ErrorToast(TypeError))]
             /\ UNCHANGED <<saved, body, download>>
        ELSE /\ toasts' = [toasts EXCEPT ![c] = Append(@, SuccessToast(format))]
             /\ saved' = Append(saved, [by |-> c, format |-> format, text |-> r.text])
             /\ body' = dom.body
             /\ objectURLs' = dom.objectURLs
             /\ created' = dom.created
             /\ clicks' = dom.clicks
  /\ UNCHANGED <<api, dash, form, html2pdf, head, tempElement, invoked, completed, outcome, enc>>

\* HandleDownloadPDF with exportAsPDF not awaited: the success notification is
\* shown at once
HandleDownloadPDFNoAwait(c) ==
  /\ CanStart(c)
  /\ fmt' = [fmt EXCEPT ![c] = "pdf"]
  /\ arg' = [arg EXCEPT ![c] = listing]
  /\ head' = LoadHtml2PdfHead(html2pdf, head, c)
  /\ pc' = [pc EXCEPT ![c] = IF html2pdf THEN "loaded" ELSE "loading"]
  /\ toasts' = [toasts EXCEPT ![c] = Append(@, SuccessToast("pdf"))]
  /\ UNCHANGED <<api, dash, form, html2pdf, body, tempElement, invoked, completed, outcome,
                 saved, enc, download>>

\* handleDownload("pdf") up to exportAsPDF's await loadHtml2Pdf()
HandleDownloadPDF(c) ==
  /\ CanStart(c)
  /\ fmt' = [fmt EXCEPT ![c] = "pdf"]
  /\ arg' = [arg EXCEPT ![c] = listing]
  /\ head' = LoadHtml2PdfHead(html2pdf, head, c)
  /\ pc' = [pc EXCEPT ![c] = IF html2pdf THEN "loaded" ELSE "loading"]
  /\ UNCHANGED <<api, dash, form, html2pdf, body, tempElement, invoked, completed, outcome,
                 toasts, saved, enc, download>>

\* script.onload: the script has run, and has or has not set window.html2pdf;
\* the 100 ms timer is started
ScriptLoad(c) ==
  /\ pc[c] = "loading"
  /\ \E initialised \in BOOLEAN : html2pdf' = (html2pdf \/ initialised)
  /\ pc' = [pc EXCEPT ![c] = "initializing"]
  /\ UNCHANGED <<api, dash, form, head, body, fmt, tempElement, invoked, completed, outcome,
                 toasts, saved, enc, download, arg>>

\* script.onerror
ScriptError(c) ==
  /\ pc[c] = "loading"
  /\ Reject(c, Error("Failed to load html2pdf library from CDN"))
  /\ UNCHANGED <<api, dash, form, html2pdf, head, fmt, tempElement, invoked, completed, toasts,
                 saved, enc, download, arg>>

\* InitCheck resolving without looking at window.html2pdf
InitCheckUnverified(c) ==
  /\ pc[c] = "initializing"
  /\ pc' = [pc EXCEPT ![c] = "loaded"]
  /\ UNCHANGED <<api, dash, form, html2pdf, head, body, fmt, tempElement, invoked, completed,
                 outcome, toasts, saved, enc, download, arg>>

\* the 100 ms timer of script.onload
InitCheck(c) ==
  /\ pc[c] = "initializing"
  /\ IF html2pdf
     THEN /\ pc' = [pc EXCEPT ![c] = "loaded"]
          /\ UNCHANGED <<body, outcome>>
     ELSE Reject(c, Error("html2pdf failed to initialize"))
  /\ UNCHANGED <<api, dash, form, html2pdf, head, fmt, tempElement, invoked, completed, toasts,
                 saved, enc, download, arg>>

\* exportAsPDF after await loadHtml2Pdf(): the fragment is built and attached
\* and the 500 ms timer started
AttachTemplate(c) ==
  /\ pc[c] = "loaded"
  /\ IF createPDFTemplate(arg[c]).threw
     THEN /\ Reject(c, TypeError)
          /\ UNCHANGED tempElement
     ELSE /\ tempElement' = [tempElement EXCEPT ![c] = c]
          /\ body' = Append(body, c)
          /\ pc' = [pc EXCEPT ![c] = "settling"]
          /\ UNCHANGED outcome
  /\ UNCHANGED <<api, dash, form, html2pdf, head, fmt, invoked, completed, toasts, saved, enc, download, arg>>

\* exportAsPDF after the 500 ms: the conversion routine is invoked, if there
StartConversion(c) ==
  /\ pc[c] = "settling"
  /\ IF html2pdf
     THEN /\ invoked' = [invoked EXCEPT ![c] = TRUE]
          /\ pc' = [pc EXCEPT ![c] = "converting"]
          /\ UNCHANGED <<body, outcome>>
     ELSE /\ Reject(c, Error("html2pdf library not available"))
          /\ UNCHANGED invoked
  /\ UNCHANGED <<api, dash, form, html2pdf, head, fmt, tempElement, completed, toasts, saved, enc, download, arg>>

\* save() completed: the finally block runs and exportAsPDF resolves
ConversionDone(c) ==
  /\ pc[c] = "converting"
  /\ completed' = [completed EXCEPT ![c] = TRUE]
  /\ saved' = Append(saved, [by |-> c, format |-> "pdf", text |-> <<>>])
  /\ body' = Finally(body, tempElement[c])
  /\ outcome' = [outcome EXCEPT ![c] = Resolved]
  /\ pc' = [pc EXCEPT ![c] = "settled"]
  /\ UNCHANGED <<api, dash, form, html2pdf, head, fmt, tempElement, invoked, toasts, enc, download, arg>>

\* the conversion routine threw or rejected with the value thrown
ConversionFailed(c, thrown) ==
  /\ pc[c] = "converting"
  /\ Reject(c, thrown)
  /\ UNCHANGED <<api, dash, form, html2pdf, head, fmt, tempElement, invoked, completed, toasts,
                 saved, enc, download, arg>>

\* handleDownload("pdf") after await exportAsPDF(): the notification
HandleDownloadResume(c) ==
  /\ pc[c] = "settled"
  /\ toasts' = [toasts EXCEPT ![c] = Notify(@, outcome[c])]
  /\ pc' = [pc EXCEPT ![c] = "done"]
  /\ UNCHANGED <<api, dash, form, page, fmt, tempElement, invoked, completed, outcome, saved, enc, download, arg>>

Next ==
  \E c \in Calls :
    \/ \E format \in {"json", "csv", "html"} : HandleDownloadSync(c, format)
    \/ HandleDownloadPDF(c)
    \/ ScriptLoad(c)
    \/ ScriptError(c)
    \/ InitCheck(c)
    \/ AttachTemplate(c)
    \/ StartConversion(c)
    \/ ConversionDone(c)
    \/ \E thrown \in ThrownValues : ConversionFailed(c, thrown)
    \/ HandleDownloadResume(c)

Spec == Init /\ [][Next]_vars

(***************************************************************************)
(* The encoders applied to a listing drawn from Listings.                  *)
(***************************************************************************)
Encoders == {"json", "csv", "csv2", "html", "html2", "pdf"}

Encode(op, l) ==
  CASE op = "json" -> exportAsJSON(l)
    [] op = "csv" -> exportAsCSV(l)
    [] op = "csv2" -> exportAsCSV2(l)
    [] op = "html" -> exportAsHTML(l)
    [] OTHER -> exportAsHTML2(l)

EncoderInit ==
  /\ listing = MugListing
  /\ editor = 2
  /\ SessionInit
  /\ encIn \in Listings
  /\ EncInit
  /\ ApiIdle
  /\ DashboardInit

\* an exporter, or ("pdf") createPDFTemplate, applied to the listing
Apply(op) ==
  /\ encOp = "none"
  /\ encOp' = op
  /\ IF op = "pdf"
     THEN /\ encOut' = (IF createPDFTemplate(encIn).threw THEN Threw ELSE Returned(<<>>))
          /\ encNode' = createPDFTemplate(encIn).node
     ELSE /\ encOut' = Encode(op, encIn)
          /\ encNode' = NoFragment
  /\ UNCHANGED <<api, dash, form, page, calls, download, encIn>>

EncoderNext == \E op \in Encoders : Apply(op)

EncoderSpec == EncoderInit /\ [][EncoderNext]_vars

(***************************************************************************)
(* The Listing Editor: its listing state, initialised from location.state  *)
(* (the post and, if there is one, the listing the backend generated) and  *)
(* changed by the inputs of its form.                                      *)
(***************************************************************************)
\* a JavaScript array of strings
Arr(a) == [t |-> "array", v |-> a]

\* Or keeping a falsy value
OrKeep(x, fallback) == x

\* x || fallback : an array and a non-empty string are truthy
Or(x, fallback) == IF x.t = "array" \/ Truthy(x) THEN x ELSE fallback

\* attributes?.key
OptionalGet(attributes, key) ==
  IF attributes.t # "object" \/ attributes[key].t = "absent" THEN Undefined
  ELSE attributes[key]

\* the texts of the initialiser; a text that holds no character an exporter
\* rewrites or splits at is one item
DefaultTitle == <<"Product Title">>
DefaultDescription == <<"Product description goes here...">>
DefaultBullets ==
  << <<"High-quality materials and construction">>, <<"Perfect for everyday use">>,
     <<"Available in multiple sizes and colors">>, <<"Easy to maintain and clean">>,
     <<"Great value for money">> >>
DefaultKeywords ==
  <<"p", "r", "o", "d", "u", "c", "t", ",", " ", "q", "u", "a", "l", "i", "t", "y", ",",
    " ", "d", "u", "r", "a", "b", "l", "e", ",", " ", "l", "i", "f", "e", "s", "t", "y",
    "l", "e">>
DefaultPrice == <<"2", "9", ".", "9", "9">>
DefaultCategory == <<"H", "o", "m", "e", " ", "&", " ", "K", "i", "t", "c", "h", "e", "n">>
DefaultColor == <<"#", "f", "f", "f", "f", "f", "f">>

\* the length the title taken from a caption is cut to
TitleLimit == 100

\* s.substring(0, n)
Substring(s, n) == SubSeq(s, 1, IF Len(s) < n THEN Len(s) ELSE n)

\* the input of an optional field, in the Editor that has one
OptionalInput(version, x) == IF version = 2 THEN Or(x, Str(<<>>)) ELSE Absent

\* useState's initial value when location.state holds a generated listing
FromGenerated(version, g) ==
  [title |-> Or(g.title, Str(DefaultTitle)),
   description |-> Or(g.description, Str(DefaultDescription)),
   bulletPoints |-> Or(g.bullets, Arr(DefaultBullets)).v,
   keywords |-> Str(Join(Or(g.search_terms, Arr(<<>>)).v, <<",", " ">>)),
   price |-> Or(OptionalGet(g.attributes, "price"), Str(DefaultPrice)),
   category |-> Or(g.category, Str(DefaultCategory)),
   color |-> Or(OptionalGet(g.attributes, "color"), Str(DefaultColor)),
   dimensions_size |-> OptionalInput(version, g.dimensions_size),
   weight |-> OptionalInput(version, g.weight),
   primary_use |-> OptionalInput(version, g.primary_use),
   included_items |-> OptionalInput(version, g.included_items),
   extra |-> Absent]

\* useState's initial value when there is only the post
FromPost(version, caption) ==
  [title |-> Or(IF IsNullish(caption) THEN Undefined
                ELSE Str(Substring(Split(caption.v, "\n")[1], TitleLimit)),
                Str(DefaultTitle)),
   description |-> Or(caption, Str(DefaultDescription)),
   bulletPoints |-> DefaultBullets,
   keywords |-> Str(DefaultKeywords),
   price |-> Str(DefaultPrice),
   category |-> Str(DefaultCategory),
   color |-> Str(DefaultColor),
   dimensions_size |-> OptionalInput(version, Undefined),
   weight |-> OptionalInput(version, Undefined),
   primary_use |-> OptionalInput(version, Undefined),
   included_items |-> OptionalInput(version, Undefined),
   extra |-> Absent]

\* the keys the form has an input for
FormKeys(version) ==
  {"title", "description", "price", "category", "color", "keywords"}
    \cup (IF version = 2
          THEN {"dimensions_size", "weight", "primary_use", "included_items"}
          ELSE {})

\* EditField without the spread of the listing's other fields: the keywords
\* are lost
EditFieldNoSpread(key, value) ==
  /\ edits < MaxEdits
  /\ key \in FormKeys(editor)
  /\ listing' = [[listing EXCEPT !["keywords"] = Undefined] EXCEPT ![key] = Str(value)]
  /\ edits' = edits + 1
  /\ UNCHANGED <<api, dash, editor, page, calls, saved, enc, download>>

\* onChange of the input of a field: setListing({ ...listing, [key]: value })
EditField(key, value) ==
  /\ edits < MaxEdits
  /\ key \in FormKeys(editor)
  /\ listing' = [listing EXCEPT ![key] = Str(value)]
  /\ edits' = edits + 1
  /\ UNCHANGED <<api, dash, editor, page, calls, saved, enc, download>>

\* onChange of the input of a bullet: the copy of bulletPoints with the text
\* at index replaced
EditBullet(index, value) ==
  /\ edits < MaxEdits
  /\ index \in 1..Len(listing.bulletPoints)
  /\ listing' = [listing EXCEPT !.bulletPoints = [@ EXCEPT ![index] = value]]
  /\ edits' = edits + 1
  /\ UNCHANGED <<api, dash, editor, page, calls, saved, enc, download>>

\* the objects location.state.listing is drawn from: a listing with every
\* field, one with its attributes but no price, and the listings whose fields
\* are all missing, all null, all empty
NoAttributes == [t |-> "undefined", price |-> Absent, color |-> Absent]
Attributes(price, color) == [t |-> "object", price |-> price, color |-> color]

Generated(text, array, attributes) ==
  [title |-> text, description |-> text, category |-> text, bullets |-> array,
   search_terms |-> array, attributes |-> attributes, dimensions_size |-> text,
   weight |-> text, primary_use |-> text, included_items |-> text]

CompleteGenerated ==
  [title |-> Str(<<"T">>), description |-> Str(<<"d", "\n", "e">>),
   category |-> Str(<<"H">>), bullets |-> Arr(<< <<"B">> >>),
   search_terms |-> Arr(<< <<"a">>, <<"b">> >>),
   attributes |-> Attributes(Str(<<"5">>), Str(<<"r">>)),
   dimensions_size |-> Str(<<"1", "x", "2">>), weight |-> Absent,
   primary_use |-> Absent, included_items |-> Absent]

GeneratedListings ==
  {CompleteGenerated,
   [CompleteGenerated EXCEPT !.attributes = Attributes(Absent, Str(<<"r">>))],
   Generated(Absent, Absent, NoAttributes),
   Generated(Null, Null, Attributes(Null, Null)),
   Generated(Str(<<>>), Arr(<<>>), Attributes(Str(<<>>), Str(<<>>)))}

\* post.caption
Captions == {Absent, Str(<<"l", "\n", "m">>), Str(<<>>)}

\* the texts typed into an input
TypedTexts == {<<>>, <<"x">>}

\* the format asked for in the sessions with edits: the HTML export, the one
\* that reads a property of keywords
EditorFormats == {"html"}

EditorInit ==
  /\ editor \in {1, 2}
  /\ \/ \E g \in GeneratedListings : listing = FromGenerated(editor, g)
     \/ \E caption \in Captions : listing = FromPost(editor, caption)
  /\ SessionInit
  /\ encIn = MugListing
  /\ EncInit
  /\ ApiIdle
  /\ DashboardInit

EditorNext ==
  \/ \E key \in KeySet, value \in TypedTexts : EditField(key, value)
  \/ \E index \in 1..Len(DefaultBullets), value \in TypedTexts : EditBullet(index, value)
  \/ \E c \in Calls, format \in EditorFormats : HandleDownloadSync(c, format)

EditorSpec == EditorInit /\ [][EditorNext]_vars

(***************************************************************************)
(* Properties of the session (Spec).                                       *)
(***************************************************************************)
Settled(c) == pc[c] \in {"settled", "done"}

HasToast(c, kind) == \E i \in 1..Len(toasts[c]) : toasts[c][i].kind = kind

FileSaved(c) == \E i \in 1..Len(saved) : saved[i].by = c

\* the conversion routine of call c threw or rejected
ConversionFailure(c) == invoked[c] /\ outcome[c].state = "rejected"

\* C1: once an exportAsPDF call has settled, on whatever exit path, the fragment
\* it created is not attached to the document: document.body holds only the
\* fragments of the calls that are still settling or converting.
C1_FragmentRemovedOnEveryExit ==
  /\ \A c \in Calls : Settled(c) => ~IsChild(body, c)
  /\ \A i \in 1..Len(body) : pc[body[i]] \in {"settling", "converting"}

\* C1 witness: a call whose conversion failed after it had attached its fragment
C1_Witness ==
  \E c \in Calls : ConversionFailure(c) /\ tempElement[c] = c /\ ~IsChild(body, c)

\* C2: exportAsPDF calls that start while html2pdf is not available append at
\* most one script element for the library to document.head between them.
C2_ScriptRequestedAtMostOnce == Len(head) <= 1

\* C3: no script element is appended before the first exportAsPDF call, and a
\* call that starts once window.html2pdf is set resolves its load step at once
\* and appends no script element.
C3_LazyAndCached ==
  /\ []((\A c \in Calls : fmt[c] # "pdf") => head = <<>>)
  /\ [][\A c \in Calls :
          (html2pdf /\ pc[c] = "idle" /\ fmt'[c] = "pdf")
            => (head' = head /\ pc'[c] = "loaded")]_vars

\* C3 witness: a call started after the one script had loaded the library, its
\* load step resolved, no script of its own
C3_Witness ==
  /\ html2pdf
  /\ Len(head) = 1
  /\ \E c \in Calls : pc[c] = "loaded" /\ head[1] # c

\* the call has attached no fragment and has not invoked the conversion routine
NothingRendered(c) == tempElement[c] = 0 /\ ~invoked[c] /\ ~IsChild(body, c)

LoadRejection(c, message) ==
  /\ pc[c] = "settled"
  /\ outcome[c].state = "rejected"
  /\ outcome[c].error = Error(message)
  /\ NothingRendered(c)

\* C4: when the script fails to load, or has loaded without setting
\* window.html2pdf when the check runs, exportAsPDF rejects with an Error
\* carrying the fixed message of that case, having attached no fragment and not
\* invoked the conversion routine; a settled call attaches and invokes nothing
\* afterwards.
C4_LoadFailureRejects ==
  [][\A c \in Calls :
       /\ (pc[c] = "loading" /\ pc'[c] \notin {"loading", "initializing"})
            => LoadRejection(c, "Failed to load html2pdf library from CDN")'
       /\ (pc[c] = "initializing" /\ ~html2pdf /\ pc'[c] # "initializing")
            => LoadRejection(c, "html2pdf failed to initialize")'
       /\ Settled(c)
            => /\ tempElement'[c] = tempElement[c]
               /\ invoked'[c] = invoked[c]
               /\ IsChild(body, c)' => IsChild(body, c)]_vars

\* C4 witness: a call rejected because the script loaded without initialising
C4_Witness ==
  \E c \in Calls :
    /\ Settled(c)
    /\ outcome[c].caught = Error("html2pdf failed to initialize")
    /\ outcome[c].error = Error("html2pdf failed to initialize")
    /\ NothingRendered(c)

\* C5 as stated: whatever the conversion routine threw, exportAsPDF throws an
\* Error with the same message.
C5_SameMessageWhateverThrown ==
  \A c, d \in Calls :
    (ConversionFailure(c) /\ ConversionFailure(d))
      => outcome[c].error.message = outcome[d].error.message

\* C5 amended: when the conversion routine throws, exportAsPDF throws an Error
\* whose message is that of the value thrown when that value is an Error, and
\* "Failed to generate PDF. Please try again." otherwise.
C5_MessageOfThrownError ==
  \A c \in Calls :
    ConversionFailure(c)
      => /\ outcome[c].error.isError
         /\ outcome[c].error.message =
              (IF outcome[c].caught.isError THEN outcome[c].caught.message
               ELSE "Failed to generate PDF. Please try again.")

\* C5 witness: two conversions failed, one with an Error, one with another value
C5_Witness ==
  \E c, d \in Calls :
    /\ ConversionFailure(c) /\ outcome[c].caught.isError
    /\ ConversionFailure(d) /\ ~outcome[d].caught.isError

\* C6: handleDownload("pdf") shows "Downloaded as PDF" only once the conversion
\* routine's save has completed and the fragment has been removed, and never
\* for an export whose load or conversion failed.
C6_SuccessOnlyAfterConversion ==
  \A c \in Calls :
    (fmt[c] = "pdf" /\ HasToast(c, "success"))
      => /\ completed[c]
         /\ outcome[c].state = "resolved"
         /\ ~IsChild(body, c)

\* C6 witness: a PDF export that showed its success notification
C6_Witness ==
  \E c \in Calls : fmt[c] = "pdf" /\ toasts[c] = <<SuccessToast("pdf")>> /\ completed[c]

\* the export of invocation c completed without throwing
Exported(c) == IF fmt[c] = "pdf" THEN outcome[c].state = "resolved" ELSE FileSaved(c)

\* C7: every handleDownload invocation produces exactly one notification, when
\* it finishes and none before: a success notification if the export completed
\* without throwing, an error notification otherwise, never both.
C7_ExactlyOneNotification ==
  \A c \in Calls :
    /\ pc[c] # "done" => toasts[c] = <<>>
    /\ pc[c] = "done"
         => /\ Len(toasts[c]) = 1
            /\ toasts[c][1].kind = (IF Exported(c) THEN "success" ELSE "error")

\* C7 witness: one invocation ended with an error notification, another with a
\* success notification
C7_Witness ==
  \E c, d \in Calls :
    /\ pc[c] = "done" /\ toasts[c] = <<ErrorToast(outcome[c].error)>> /\ ~Exported(c)
    /\ pc[d] = "done" /\ fmt[d] # "pdf" /\ toasts[d] = <<SuccessToast(fmt[d])>>

(***************************************************************************)
(* Properties of the encoders (EncoderSpec).                               *)
(***************************************************************************)
RequiredKeys == {"title", "description", "category", "price", "keywords"}

\* C8: a listing in which a required field is null or undefined is exported as
\* JSON, CSV and HTML without an exception.
C8_MissingFieldNeverThrows ==
  (encOp \in {"json", "csv", "html"} /\ \E k \in RequiredKeys : IsNullish(Get(encIn, k)))
    => ~encOut.threw

DropUndefined(l) ==
  [k \in KeySet |-> IF k # "bulletPoints" /\ l[k].t = "undefined" THEN Absent ELSE l[k]]

CSVLabels ==
  {"Field,Value", "Title,", "Category,", "Price,", "Color,", "Dimensions/Size,",
   "Weight,", "Primary Use/Purpose,", "Included Items,", "Keywords,", "Description",
   "Bullet Points"}

\* the labels of the rows of a CSV text, in order
RowLabels(text) == SelectSeq(text, LAMBDA x : x \in CSVLabels)

PresentLabel(l, key, label) == IF Truthy(Get(l, key)) THEN <<label>> ELSE <<>>

\* C10: the rows of the CSV export are, in order, Field,Value; Title; Category;
\* Price; the present optional rows in the order Color, Dimensions/Size, Weight,
\* Primary Use/Purpose, Included Items; Keywords; Description; Bullet Points;
\* the Title row is the second row.
C10_RowOrder ==
  encOp \in {"csv", "csv2"}
    => /\ RowLabels(encOut.text)
            = <<"Field,Value", "Title,", "Category,", "Price,">>
              \o PresentLabel(encIn, "color", "Color,")
              \o PresentLabel(encIn, "dimensions_size", "Dimensions/Size,")
              \o PresentLabel(encIn, "weight", "Weight,")
              \o PresentLabel(encIn, "primary_use", "Primary Use/Purpose,")
              \o PresentLabel(encIn, "included_items", "Included Items,")
              \o <<"Keywords,", "Description", "Bullet Points">>
       /\ SubSeq(encOut.text, 1, 3) = <<"Field,Value", "\n", "Title,">>

RECURSIVE CSVRecordsFrom(_, _, _, _)
\* the records of a CSV text from position i: a line break ends a record unless
\* it stands inside a quoted field
CSVRecordsFrom(text, i, record, inQuotes) ==
  IF i > Len(text) THEN <<record>>
  ELSE IF text[i] = "\n" /\ ~inQuotes
       THEN <<record>> \o CSVRecordsFrom(text, i + 1, <<>>, FALSE)
  ELSE CSVRecordsFrom(text, i + 1, Append(record, text[i]),
                      IF text[i] = "\"" THEN ~inQuotes ELSE inQuotes)

CSVRecords(text) == CSVRecordsFrom(text, 1, <<>>, FALSE)

RECURSIVE UnDouble(_, _)
\* the characters of a quoted field's inside with every doubled quote read as
\* one quote; not ok when a quote stands alone
UnDouble(s, acc) ==
  IF s = <<>> THEN [ok |-> TRUE, val |-> acc]
  ELSE IF Head(s) # "\"" THEN UnDouble(Tail(s), Append(acc, Head(s)))
  ELSE IF Len(s) >= 2 /\ s[2] = "\"" THEN UnDouble(Tail(Tail(s)), Append(acc, "\""))
  ELSE [ok |-> FALSE, val |-> <<>>]

\* the value of a field "...": not ok unless the field is wrapped in quotes
UnquoteCSV(field) ==
  IF Len(field) >= 2 /\ field[1] = "\"" /\ field[Len(field)] = "\""
  THEN UnDouble(SubSeq(field, 2, Len(field) - 1), <<>>)
  ELSE [ok |-> FALSE, val |-> <<>>]

\* the records that follow the Bullet Points record
BulletRecords(text) ==
  LET records == CSVRecords(text)
      k == CHOOSE i \in 1..Len(records) : records[i] = <<"Bullet Points">>
  IN SubSeq(records, k + 1, Len(records))

\* the record is n,"<escaped text>"
IsBulletRow(record, n, bullet) ==
  LET index == Digits(n) \o <<",">>
      field == UnquoteCSV(SubSeq(record, Len(index) + 1, Len(record)))
  IN /\ Len(record) > Len(index)
     /\ SubSeq(record, 1, Len(index)) = index
     /\ field.ok
     /\ field.val = bullet

\* C11: the CSV export has as many bullet rows after the Bullet Points row as
\* the listing has bullets (none when it has none), and the k-th bullet row is
\* k,"<the k-th bullet, its quotes doubled>", k counted from 1.
C11_BulletRows ==
  encOp \in {"csv", "csv2"}
    => LET rows == BulletRecords(encOut.text)
       IN /\ Len(rows) = Len(encIn.bulletPoints)
          /\ \A k \in 1..Len(rows) : IsBulletRow(rows[k], k, encIn.bulletPoints[k])

RECURSIVE DecodeEntities(_, _)
\* the text a browser reads from element content: &amp; &lt; &gt; read as the
\* characters they stand for; not ok at a '<', a '>' or an '&' that starts none
\* of the three
DecodeEntities(s, acc) ==
  IF s = <<>> THEN [ok |-> TRUE, val |-> acc]
  ELSE IF Head(s) \in {"<", ">"} THEN [ok |-> FALSE, val |-> <<>>]
  ELSE IF Head(s) # "&" THEN DecodeEntities(Tail(s), Append(acc, Head(s)))
  ELSE IF Len(s) >= 5 /\ SubSeq(s, 2, 5) = <<"a", "m", "p", ";">>
       THEN DecodeEntities(SubSeq(s, 6, Len(s)), Append(acc, "&"))
  ELSE IF Len(s) >= 4 /\ SubSeq(s, 2, 4) = <<"l", "t", ";">>
       THEN DecodeEntities(SubSeq(s, 5, Len(s)), Append(acc, "<"))
  ELSE IF Len(s) >= 4 /\ SubSeq(s, 2, 4) = <<"g", "t", ";">>
       THEN DecodeEntities(SubSeq(s, 5, Len(s)), Append(acc, ">"))
  ELSE [ok |-> FALSE, val |-> <<>>]

Decoded(s) == [ok |-> TRUE, val |-> s]

RECURSIVE Until(_, _, _)
\* the items of text from position i up to the first item stop
Until(text, i, stop) ==
  IF i > Len(text) \/ text[i] = stop THEN <<>>
  ELSE <<text[i]>> \o Until(text, i + 1, stop)

\* the positions of an item in a text, in order
Positions(text, item) ==
  LET at == {i \in 1..Len(text) : text[i] = item}
      RECURSIVE InOrder(_)
      InOrder(S) == IF S = {} THEN <<>>
                    ELSE LET m == CHOOSE i \in S : \A j \in S : i <= j
                         IN <<m>> \o InOrder(S \ {m})
  IN InOrder(at)

\* the contents of the elements opened by the tag open and closed by close
Elements(text, open, close) ==
  LET at == Positions(text, open)
  IN [n \in 1..Len(at) |-> Until(text, at[n] + 1, close)]

\* the values of the meta items of an HTML text that carry the label: what
\* stands in the meta-value span after the label's span
HTMLMetaValues(text, label) ==
  LET at == Positions(text, label)
  IN [n \in 1..Len(at) |-> Until(text, at[n] + 3, "</span>")]

\* the optional fields with their CSV row label and their HTML and PDF label
OptionalFields ==
  {[key |-> "color", row |-> "Color,", label |-> "Dominant Color"],
   [key |-> "dimensions_size", row |-> "Dimensions/Size,", label |-> "Dimensions/Size"],
   [key |-> "weight", row |-> "Weight,", label |-> "Weight"],
   [key |-> "primary_use", row |-> "Primary Use/Purpose,",
    label |-> "Primary Use/Purpose"],
   [key |-> "included_items", row |-> "Included Items,", label |-> "Included Items"]}

\* the field is there and not empty
Present(l, key) == l[key].t = "string" /\ l[key].v # <<>>

\* the rows of a CSV text that start with the label
LabelledRows(text, label) ==
  SelectSeq(CSVRecords(text), LAMBDA r : r # <<>> /\ r[1] = label)

\* C12: for each optional field (color, dimensions_size, weight, primary_use,
\* included_items): when the field is absent or empty the CSV export has no row
\* for it and the HTML export and the PDF fragment no meta item; when it is
\* present and not empty each of the three has exactly one, carrying the
\* field's value.
C12_OptionalFields ==
  \A f \in OptionalFields :
    LET rows == LabelledRows(encOut.text, f.row)
        values == HTMLMetaValues(encOut.text, f.label)
        items == SelectSeq(encNode.meta, LAMBDA item : item.label = f.label)
    IN /\ encOp = "csv"
            => IF Present(encIn, f.key)
               THEN /\ Len(rows) = 1
                    /\ UnquoteCSV(Tail(rows[1])) = Decoded(encIn[f.key].v)
               ELSE rows = <<>>
       /\ (encOp = "html" /\ ~encOut.threw)
            => IF Present(encIn, f.key)
               THEN /\ Len(values) = 1
                    /\ DecodeEntities(values[1], <<>>) = Decoded(encIn[f.key].v)
               ELSE values = <<>>
       /\ (encOp = "pdf" /\ ~encOut.threw)
            => IF Present(encIn, f.key)
               THEN items = <<[label |-> f.label, value |-> encIn[f.key].v]>>
               ELSE items = <<>>

\* C12 witness: the fragment built for a listing with a colour with markup in
\* it and an empty weight
C12_Witness ==
  /\ encOp = "pdf"
  /\ ~encOut.threw
  /\ encIn.color = Str(<<"<", "b", ">", "&", "'">>)
  /\ encIn.weight = Str(<<>>)
  /\ Len(encNode.meta) = 7

\* the '&' at position i of the text starts one of &amp; &lt; &gt;
StartsEntity(text, i) ==
  \/ i + 4 <= Len(text) /\ SubSeq(text, i + 1, i + 4) = <<"a", "m", "p", ";">>
  \/ i + 3 <= Len(text) /\ SubSeq(text, i + 1, i + 3) \in {<<"l", "t", ";">>, <<"g", "t", ";">>}

\* C13: in the HTML export no '<' or '>' character of a listing text field
\* stands as it is and every '&' starts an entity, so the only tags of the
\* document are the template's; the <title> element and the heading hold the
\* title entity-encoded, and read back as the title.
C13_MarkupEntityEncoded ==
  (encOp \in {"html", "html2"} /\ ~encOut.threw)
    => /\ \A i \in 1..Len(encOut.text) :
            /\ encOut.text[i] \notin {"<", ">"}
            /\ encOut.text[i] = "&" => StartsEntity(encOut.text, i)
       /\ \A open \in {"<title>", "<h1>"} :
            LET found == Elements(encOut.text, open,
                                  IF open = "<h1>" THEN "</h1>" ELSE "</title>")
            IN /\ Len(found) = 1
               /\ DecodeEntities(found[1], <<>>) = Decoded(TextContent(Get(encIn, "title")))

\* C13 witness: the HTML export of a listing whose title holds a tag and an
\* ampersand
C13_Witness ==
  /\ encOp = "html"
  /\ ~encOut.threw
  /\ encIn.title = Str(<<"<", "b", ">", "&", "'">>)
  /\ \E i \in 1..Len(encOut.text) : encOut.text[i] = "&"

Quotes == {"\"", "'"}

\* the number of quote characters of a text
QuoteCount(s) == Cardinality({i \in 1..Len(s) : s[i] \in Quotes})

\* the texts of the listing an HTML export interpolates, one after the other:
\* the title twice, category, price, the optional fields that are there (of
\* the second copy: colour only), description, bullets, keywords
Interpolated(op, l) ==
  LET optional == IF op = "html"
                  THEN <<"color", "dimensions_size", "weight", "primary_use",
                         "included_items">>
                  ELSE <<"color">>
  IN TextContent(Get(l, "title")) \o TextContent(Get(l, "title"))
     \o TextContent(Get(l, "category")) \o TextContent(Get(l, "price"))
     \o Concat([i \in 1..Len(optional) |->
                  IF Present(l, optional[i]) THEN l[optional[i]].v ELSE <<>>])
     \o TextContent(Get(l, "description"))
     \o Concat(l.bulletPoints)
     \o TextContent(Get(l, "keywords"))

\* C14 as stated: in the HTML export no quote character of a listing text
\* stands as it is.
C14_QuotesEntityEncoded ==
  (encOp \in {"html", "html2"} /\ ~encOut.threw)
    => \A i \in 1..Len(encOut.text) : encOut.text[i] \notin Quotes

\* C14 amended: the HTML export holds the quote characters of the listing
\* texts as they are, each one where it was interpolated, in element content:
\* it has as many quote characters as the texts it interpolates, and no
\* character of a listing text stands inside a tag of the template.
C14_QuotesKeptInContent ==
  (encOp \in {"html", "html2"} /\ ~encOut.threw)
    => /\ QuoteCount(encOut.text) = QuoteCount(Interpolated(encOp, encIn))
       /\ \A i \in 1..Len(encOut.text) :
            encOut.text[i] \in Quotes
              => /\ i > 1 /\ i < Len(encOut.text)
                 /\ \E j \in 1..(i - 1) :
                      /\ encOut.text[j] \in {"<title>", "<h1>", "<span class=\"meta-value\">",
                                             "<div class=\"description\">", "<br>", "<li>",
                                             "<span class=\"keyword-tag\">"}
                      /\ \A k \in (j + 1)..(i - 1) : Len(encOut.text[k]) = 1

\* C14 witness: the HTML export of a listing whose description holds a double
\* quote and whose title holds a single quote
C14_Witness ==
  /\ encOp = "html"
  /\ ~encOut.threw
  /\ encIn.description = Str(<<"a", "\"", "b">>)
  /\ encIn.title = Str(<<"<", "b", ">", "&", "'">>)
  /\ QuoteCount(encOut.text) = 3

\* the fields of the labelled rows both copies of exportAsCSV always write
RequiredRows ==
  {[key |-> "title", row |-> "Title,"], [key |-> "category", row |-> "Category,"],
   [key |-> "price", row |-> "Price,"], [key |-> "keywords", row |-> "Keywords,"]}

\* the record that follows the Description record
DescriptionRecord(text) ==
  LET records == CSVRecords(text)
      k == CHOOSE i \in 1..Len(records) : records[i] = <<"Description">>
  IN records[k + 1]

\* C15: every value of the CSV export is wrapped in double quotes with each
\* double quote of the value doubled and no other character changed, added or
\* removed (commas and line breaks stay as they are): un-doubling the quotes
\* inside the emitted field gives back the value.  A null or undefined value
\* gives the empty field "".
C15_QuotedAndDoubled ==
  encOp \in {"csv", "csv2"}
    => /\ \A f \in RequiredRows :
            LET rows == LabelledRows(encOut.text, f.row)
            IN /\ Len(rows) = 1
               /\ UnquoteCSV(Tail(rows[1])) = Decoded(TextContent(Get(encIn, f.key)))
       /\ \A f \in OptionalFields :
            LET rows == LabelledRows(encOut.text, f.row)
            IN rows # <<>> => UnquoteCSV(Tail(rows[1])) = Decoded(encIn[f.key].v)
       /\ UnquoteCSV(DescriptionRecord(encOut.text))
            = Decoded(TextContent(Get(encIn, "description")))
       /\ encOp = "csv"
            => LET rows == BulletRecords(encOut.text)
               IN \A k \in 1..Len(rows) :
                    UnquoteCSV(SubSeq(rows[k], Len(Digits(k)) + 2, Len(rows[k])))
                      = Decoded(encIn.bulletPoints[k])

\* C15 witness: the CSV export of a listing with a quote in its description, a
\* comma, a line break and a backslash in its keywords, and a bullet with a
\* quote and a line break
C15_Witness ==
  /\ encOp = "csv"
  /\ encIn.description = Str(<<"a", "\"", "b">>)
  /\ encIn.keywords = Str(<<"x", "\n", "\\", "y", ",">>)
  /\ DescriptionRecord(encOut.text) = <<"\"", "a", "\"", "\"", "b", "\"">>

\* the number of commas of a text
Commas(s) == Cardinality({i \in 1..Len(s) : s[i] = ","})

\* the texts of the keyword tags of an HTML text, in order, entities read back
HTMLTagTexts(text) ==
  LET found == Elements(text, "<span class=\"keyword-tag\">", "</span>")
  IN [n \in 1..Len(found) |-> DecodeEntities(found[n], <<>>).val]

\* the tags are the comma-separated segments of the keywords in order, each
\* without its surrounding white space: putting the segments' white space back
\* around the tags and joining with commas gives the keywords, and no tag holds
\* a comma or starts or ends with white space
SegmentsOf(tags, keywords) ==
  /\ Len(tags) = Commas(keywords) + 1
  /\ \A n \in 1..Len(tags) :
       /\ \A i \in 1..Len(tags[n]) : tags[n][i] # ","
       /\ tags[n] # <<>> => tags[n][1] \notin WhiteSpace /\ tags[n][Len(tags[n])] \notin WhiteSpace
  /\ Len(Split(keywords, ",")) = Len(tags)
  /\ \A n \in 1..Len(tags) :
       LET segment == Split(keywords, ",")[n]
       IN \E i \in 1..(Len(segment) + 1) :
            /\ SubSeq(segment, i, i + Len(tags[n]) - 1) = tags[n]
            /\ \A j \in (1..(i - 1)) \cup ((i + Len(tags[n]))..Len(segment)) :
                 segment[j] \in WhiteSpace

\* C16: the HTML export and the PDF fragment render (number of commas + 1)
\* keyword tags, in order, the i-th holding the i-th comma-separated segment of
\* the keywords without its surrounding white space; an empty segment (an
\* empty keywords string, a trailing comma) gives an empty tag.
C16_KeywordTags ==
  (encOp \in {"html", "html2", "pdf"} /\ ~encOut.threw)
    => LET tags == IF encOp = "pdf" THEN encNode.keywords ELSE HTMLTagTexts(encOut.text)
       IN SegmentsOf(tags, encIn.keywords.v)

\* C16 witness: the keywords "a, b ,c" rendered as the three tags a, b, c
C16_Witness ==
  /\ encOp = "html"
  /\ encIn.keywords = Str(<<"a", ",", " ", "b", " ", ",", "c">>)
  /\ HTMLTagTexts(encOut.text) = << <<"a">>, <<"b">>, <<"c">> >>

\* the content of the description element of an HTML text
HTMLDescriptionContent(text) ==
  Until(text, Positions(text, "<div class=\"description\">")[1] + 1, "</div>")

\* the number of occurrences of an item in a text
Count(s, item) == Cardinality({i \in 1..Len(s) : s[i] = item})

\* C17: in the description element of the HTML export every line break of the
\* description is one <br> tag and no line break is left; the tags are put in
\* after the escaping, so they are tags while the markup typed in the
\* description is entity-encoded: with each <br> read as a line break, the
\* element reads back as the description.
C17_LineBreaksAfterEscaping ==
  (encOp \in {"html", "html2"} /\ ~encOut.threw)
    => LET content == HTMLDescriptionContent(encOut.text)
           description == TextContent(Get(encIn, "description"))
       IN /\ Count(content, "<br>") = Count(description, "\n")
          /\ Count(content, "\n") = 0
          /\ DecodeEntities(ReplaceAll(content, "<br>", <<"\n">>), <<>>)
               = Decoded(description)

\* C17 witness: a description with a tag before and after a line break
C17_Witness ==
  /\ encOp = "html"
  /\ encIn.description = Str(<<"<", "i", ">", "\n", "&">>)
  /\ HTMLDescriptionContent(encOut.text)
       = <<"&", "l", "t", ";", "i", "&", "g", "t", ";", "<br>", "&", "a", "m", "p", ";">>

(***************************************************************************)
(* Properties of the download trigger (Spec).                              *)
(***************************************************************************)
\* the invocations that exported JSON, CSV or HTML and handed a file over
SyncExports == {c \in Calls : fmt[c] \in {"json", "csv", "html"} /\ FileSaved(c)}

\* C18: downloadFile releases what it acquires.  Each call creates one object
\* URL and one link, activates the link once, while it is attached to the
\* document and its URL is not revoked, then detaches the link and revokes the
\* URL: after any sequence of JSON, CSV and HTML exports document.body holds
\* no link and no object URL is left unrevoked.
C18_DownloadReleasesAll ==
  /\ objectURLs = {}
  /\ \A i \in 1..Len(body) : body[i] \notin {Link(c) : c \in Calls}
  /\ created = Cardinality(SyncExports)
  /\ Len(clicks) = created
  /\ \A i \in 1..Len(clicks) :
       /\ clicks[i].attached
       /\ clicks[i].live
       /\ clicks[i].href = i
       /\ clicks[i].by \in SyncExports
       /\ \A j \in 1..Len(clicks) : clicks[j].by = clicks[i].by => j = i

\* C18 witness: two exports have each downloaded their file through a link of
\* their own
C18_Witness ==
  /\ created = 2
  /\ Len(clicks) = 2
  /\ Cardinality(SyncExports) = 2
  /\ objectURLs = {}

(***************************************************************************)
(* Properties of the synchronous exports in the session (Spec).            *)
(***************************************************************************)
\* C19: a JSON, CSV or HTML export requests nothing and leaves the PDF
\* capability as it is, in whatever state that is: the step of such an export
\* appends no script element, does not change window.html2pdf nor the progress
\* or the outcome of any PDF export, and attaches and removes no fragment.
C19_SyncExportsLeavePDFAlone ==
  [][\A c \in Calls :
       (pc[c] = "idle" /\ fmt'[c] \in {"json", "csv", "html"})
         => /\ head' = head
            /\ html2pdf' = html2pdf
            /\ body' = body
            /\ tempElement' = tempElement
            /\ invoked' = invoked
            /\ completed' = completed
            /\ outcome' = outcome
            /\ \A d \in Calls \ {c} : pc'[d] = pc[d] /\ fmt'[d] = fmt[d]]_vars

\* C19 witness: an export that ran while the script of a PDF export was
\* loading, the PDF export still loading after it
C19_Witness ==
  \E c, d \in Calls :
    /\ d < c
    /\ fmt[c] \in {"json", "csv", "html"} /\ pc[c] = "done" /\ FileSaved(c)
    /\ fmt[d] = "pdf" /\ pc[d] = "loading"
    /\ ~html2pdf
    /\ head = <<d>>

(***************************************************************************)
(* Properties of the Listing Editor (EditorSpec).                          *)
(***************************************************************************)
\* the record has title, description, category, price and keywords, none of
\* them null or undefined, and bulletPoints is a sequence
HasRequiredFields(l) ==
  /\ \A k \in RequiredKeys : l[k].t \notin {"absent", "undefined", "null"}
  /\ DOMAIN l.bulletPoints = 1..Len(l.bulletPoints)

\* C20: whatever the location state the Editor was initialised from (a
\* generated listing with fields missing, null or empty, or the post alone) and
\* whatever edits were made, the Editor's listing, and the listing each
\* handleDownload handed to its exporter, has title, description, category,
\* price and keywords present and bulletPoints a sequence.
C20_RequiredFieldsPresent ==
  /\ HasRequiredFields(listing)
  /\ \A c \in Calls : pc[c] # "idle" => HasRequiredFields(arg[c])

\* C20 witness: an Editor initialised from a generated listing without title
\* and keywords, its category cleared by an edit, handed to an exporter
C20_Witness ==
  \E c \in Calls :
    /\ pc[c] = "done"
    /\ edits > 0
    /\ arg[c].title = Str(DefaultTitle)
    /\ arg[c].keywords = Str(<<>>)
    /\ arg[c].category = Str(<<>>)

(***************************************************************************)
(* Properties of the bullets and of the fragment (EncoderSpec).            *)
(***************************************************************************)
\* C21: every export keeps the order of the bullets.  The HTML export and the
\* PDF fragment hold as many list items as the listing has bullets, the k-th
\* item carrying the text of the k-th bullet (in the fragment after its check
\* mark), and the JSON export lists the bullets in the same order; a listing
\* without bullets gives an empty list.
C21_BulletOrderKept ==
  /\ (encOp \in {"html", "html2"} /\ ~encOut.threw)
       => LET items == Elements(encOut.text, "<li>", "</li>")
          IN /\ Len(items) = Len(encIn.bulletPoints)
             /\ \A k \in 1..Len(items) :
                  DecodeEntities(items[k], <<>>) = Decoded(encIn.bulletPoints[k])
             /\ Count(encOut.text, "<ul class=\"bullet-points\">") = 1
  /\ (encOp = "pdf" /\ ~encOut.threw)
       => /\ Len(encNode.bullets) = Len(encIn.bulletPoints)
          /\ \A k \in 1..Len(encNode.bullets) :
               encNode.bullets[k] = <<CheckMark>> \o encIn.bulletPoints[k]
  /\ encOp = "json"
       => LET parsed == JSONParse(encOut.text)
          IN parsed.ok /\ parsed.val.obj.bulletPoints = encIn.bulletPoints

\* C21 witness: the HTML export of a listing with two different bullets
C21_Witness ==
  /\ encOp = "html"
  /\ ~encOut.threw
  /\ encIn.bulletPoints = << <<"\"", "<", "\n">>, <<"D">> >>
  /\ Len(Elements(encOut.text, "<li>", "</li>")) = 2

\* the sections of an HTML text, in order, under the names of the fragment's
HTMLSections(text) ==
  LET marks == SelectSeq(text, LAMBDA x :
                 x \in {"<h1>", "<div class=\"meta-info\">", "Description", "Key Features",
                        "Search Keywords", "<div class=\"footer\">"})
  IN [n \in 1..Len(marks) |->
        CASE marks[n] = "<h1>" -> "h1"
          [] marks[n] = "<div class=\"meta-info\">" -> "meta"
          [] marks[n] = "<div class=\"footer\">" -> "footer"
          [] OTHER -> marks[n]]

\* the meta items of an HTML text, in order: label and value as a browser reads
\* them
HTMLMetaItems(text) ==
  LET at == Positions(text, "<span class=\"meta-label\">")
  IN [n \in 1..Len(at) |->
        [label |-> text[at[n] + 1],
         value |-> DecodeEntities(Until(text, at[n] + 4, "</span>"), <<>>).val]]

\* C22: the fragment createPDFTemplate builds mirrors the document
\* exportAsHTML builds for the same listing: the same sections in the same
\* order (header, meta grid, description, bullets, keyword tags, footer) and
\* the same meta items in the same order with the same labels and values
\* (Category, Price with its "$", each optional field that is there, Generated
\* On).
C22_FragmentMirrorsHTML ==
  (encOp = "pdf" /\ ~encOut.threw)
    => LET html == exportAsHTML(encIn)
       IN /\ ~html.threw
          /\ HTMLSections(html.text)
               = SelectSeq(encNode.sections, LAMBDA x : x # "spacer")
          /\ HTMLMetaItems(html.text) = encNode.meta

(***************************************************************************)
(* apiFetch (lib/utils.ts): the URL a backend call is fetched at.  A URL   *)
(* is a sequence of characters; a host name is one item.                   *)
(***************************************************************************)
Localhost == <<"h", "t", "t", "p", ":", "/", "/", "localhost:8000">>
Deployed ==
  <<"h", "t", "t", "p", "s", ":", "/", "/",
    "autolistbackend.happyrock-8cdefed1.centralindia.azurecontainerapps.io">>

\* import.meta.env.VITE_API_URL || (import.meta.env.DEV ? ... : ...)
API_BASE(VITE_API_URL, DEV) ==
  IF Truthy(VITE_API_URL) THEN VITE_API_URL.v
  ELSE IF DEV THEN Localhost ELSE Deployed

\* the letters of "https" under the i flag
LowerCase(ch) ==
  CASE ch = "H" -> "h"
    [] ch = "T" -> "t"
    [] ch = "P" -> "p"
    [] ch = "S" -> "s"
    [] OTHER -> ch

StartsWith(s, prefix) == Len(prefix) <= Len(s) /\ SubSeq(s, 1, Len(prefix)) = prefix

\* /^https?:\/\//i.test(input)
IsFullURL(input) ==
  LET lower == [k \in 1..Len(input) |-> LowerCase(input[k])]
  IN \/ StartsWith(lower, <<"h", "t", "t", "p", ":", "/", "/">>)
     \/ StartsWith(lower, <<"h", "t", "t", "p", "s", ":", "/", "/">>)

\* the URL apiFetch hands to fetch
apiFetch(input, base) ==
  IF IsFullURL(input) THEN input
  ELSE LET stripped == IF base # <<>> /\ base[Len(base)] = "/"
                       THEN SubSeq(base, 1, Len(base) - 1) ELSE base
           path == IF StartsWith(input, <<"/">>) THEN input ELSE <<"/">> \o input
       IN stripped \o path

Slashes(n) == [k \in 1..n |-> "/"]

Origins ==
  {<<"h", "t", "t", "p", ":", "/", "/", "h">>,
   <<"h", "t", "t", "p", "s", ":", "/", "/", "h", "/", "api">>}

\* the values of VITE_API_URL: not set, empty, or a URL ending in some slashes
EnvURLs ==
  {Undefined, Str(<<>>)}
    \cup {Str(o \o Slashes(n)) : o \in Origins, n \in 0..MaxSlashes}

Paths == {<<>>, <<"generate">>, <<"a", "/", "b">>}

FullURLs ==
  {<<"h", "t", "t", "p", ":", "/", "/", "x", "/", "y">>,
   <<"H", "T", "T", "P", "S", ":", "/", "/", "x">>,
   <<"h", "t", "t", "p", "s", ":", "/", "/", "x", "/", "/", "y", "/">>}

\* not full URLs: one slash only, another scheme, the scheme not at the start
OtherInputs ==
  {<<"h", "t", "t", "p", ":", "/", "x">>,
   <<"f", "t", "p", ":", "/", "/", "x">>,
   <<"x", "h", "t", "t", "p", ":", "/", "/", "x">>}

ApiInputs ==
  {Slashes(n) \o path : path \in Paths, n \in 0..MaxSlashes} \cup FullURLs \cup OtherInputs

FetchInit ==
  /\ listing = MugListing
  /\ editor = 2
  /\ SessionInit
  /\ encIn = MugListing
  /\ EncInit
  /\ DashboardInit
  /\ \E env \in EnvURLs, dev \in BOOLEAN : apiBase = API_BASE(env, dev)
  /\ apiInput \in ApiInputs
  /\ apiUrl = NotFetched

ApiFetch ==
  /\ ~apiUrl.called
  /\ apiUrl' = [called |-> TRUE, url |-> apiFetch(apiInput, apiBase)]
  /\ UNCHANGED <<form, page, calls, download, enc, dash, apiBase, apiInput>>

FetchNext == ApiFetch

FetchSpec == FetchInit /\ [][FetchNext]_vars

(***************************************************************************)
(* C23                                                                     *)
(***************************************************************************)
RECURSIVE StripTrailingSlashes(_)
StripTrailingSlashes(s) ==
  IF s # <<>> /\ s[Len(s)] = "/" THEN StripTrailingSlashes(SubSeq(s, 1, Len(s) - 1)) ELSE s

RECURSIVE StripLeadingSlashes(_)
StripLeadingSlashes(s) ==
  IF s # <<>> /\ Head(s) = "/" THEN StripLeadingSlashes(Tail(s)) ELSE s

\* the scheme of a URL: what stands before "://" at its start, in lower case
Scheme(s) ==
  LET colons == {k \in 1..Len(s) : s[k] = ":"}
      first == IF colons = {} THEN 0 ELSE CHOOSE k \in colons : \A j \in colons : k <= j
  IN IF first = 0 \/ first + 2 > Len(s) \/ s[first + 1] # "/" \/ s[first + 2] # "/"
     THEN <<>>
     ELSE [k \in 1..(first - 1) |-> LowerCase(s[k])]

HttpSchemes == {<<"h", "t", "t", "p">>, <<"h", "t", "t", "p", "s">>}

\* C23: apiFetch fetches an input that is a full http(s) URL unchanged, and
\* any other input at API_BASE joined with the path with exactly one "/"
\* between the base and the path, whether or not the base ends with "/" and
\* whether or not the input starts with "/".
C23_ResolvedAgainstBase ==
  apiUrl.called
    => IF Scheme(apiInput) \in HttpSchemes
       THEN apiUrl.url = apiInput
       ELSE apiUrl.url
              = StripTrailingSlashes(apiBase) \o <<"/">> \o StripLeadingSlashes(apiInput)

(***************************************************************************)
(* The second copy of exportAsPDF (exportUtils.ts 869-909), under the same *)
(* handleDownload and the same loadHtml2Pdf.                               *)
(***************************************************************************)
\* the second copy's createPDFTemplate throws where listing.keywords.split does
createPDFTemplate2Threw(l) == IsNullish(Get(l, "keywords"))

\* the second copy after await loadHtml2Pdf(): the fragment is built and the
\* conversion routine invoked on it, if there; nothing is appended to the
\* document and no timer is started
ExportAsPDF2(c) ==
  /\ pc[c] = "loaded"
  /\ IF createPDFTemplate2Threw(arg[c])
     THEN /\ Reject(c, TypeError)
          /\ UNCHANGED invoked
     ELSE IF html2pdf
     THEN /\ invoked' = [invoked EXCEPT ![c] = TRUE]
          /\ pc' = [pc EXCEPT ![c] = "converting"]
          /\ UNCHANGED <<body, outcome>>
     ELSE /\ Reject(c, Error("html2pdf library not available"))
          /\ UNCHANGED invoked
  /\ UNCHANGED <<api, dash, form, html2pdf, head, fmt, tempElement, completed, toasts, saved,
                 enc, download, arg>>

SecondCopyNext ==
  \E c \in Calls :
    \/ HandleDownloadPDF(c)
    \/ ScriptLoad(c)
    \/ ScriptError(c)
    \/ InitCheck(c)
    \/ ExportAsPDF2(c)
    \/ ConversionDone(c)
    \/ \E thrown \in ThrownValues : ConversionFailed(c, thrown)
    \/ HandleDownloadResume(c)

SecondCopySpec == Init /\ [][SecondCopyNext]_vars

(***************************************************************************)
(* C24                                                                     *)
(***************************************************************************)
\* the fragment of call c is attached to the document
Attached(c) == IsChild(body, c)

\* C24: in every PDF export the steps come in the order: library load
\* resolved, fragment built and attached, settling delay elapsed, conversion
\* routine invoked, fragment detached.  A fragment is attached only by an
\* export whose load has resolved; the conversion routine is invoked only by
\* an export waiting out the delay with its fragment attached; while the
\* conversion runs the fragment stays attached; it is detached when the export
\* settles.
C24_StepOrder ==
  [][\A c \in Calls :
       /\ (Attached(c)' /\ ~Attached(c)) => (pc[c] = "loaded" /\ pc'[c] = "settling")
       /\ (invoked'[c] /\ ~invoked[c])
            => (pc[c] = "settling" /\ Attached(c) /\ Attached(c)' /\ pc'[c] = "converting")
       /\ pc'[c] = "converting" => (Attached(c)' /\ invoked'[c])
       /\ (Attached(c) /\ ~Attached(c)')
            => (pc[c] \in {"settling", "converting"} /\ pc'[c] = "settled")
       /\ pc'[c] \in {"settled", "done"} => ~Attached(c)']_vars

(***************************************************************************)
(* C25                                                                     *)
(***************************************************************************)
\* a PDF export that has started and not settled
InFlight(c) ==
  fmt[c] = "pdf" /\ pc[c] \in {"loading", "initializing", "loaded", "settling", "converting"}

\* C25: with PDF exports in flight at once, each export attaches its own
\* fragment and removes only its own: a step of one export never attaches or
\* detaches the fragment of another, the fragment of an export that is still
\* converting stays attached, the number of attached fragments never exceeds
\* the number of exports in flight, and no fragment is attached once all have
\* settled.
C25_OwnFragmentOnly ==
  [][/\ \A c \in Calls :
          /\ Attached(c) # Attached(c)' => pc[c] # pc'[c]
          /\ (pc[c] = "converting" /\ pc'[c] = "converting") => Attached(c)'
     /\ Cardinality({c \in Calls : Attached(c)'}) <= Cardinality({c \in Calls : InFlight(c)'})
     /\ (\A c \in Calls : ~InFlight(c)') => \A k \in 1..Len(body') : body'[k] <= 0]_vars

C25_Witness ==
  /\ pc[1] = "settled"
  /\ outcome[1].state = "rejected"
  /\ pc[2] = "converting"
  /\ Attached(2)
  /\ ~Attached(1)

(***************************************************************************)
(* The Dashboard (pages/Dashboard.tsx) with the API client's               *)
(* generateListing.  A handler runs up to its next await; the two awaits   *)
(* of a fetch (the response, then its body) are one step, since nothing is *)
(* written between them.  The notifications are kept by invocation.        *)
(***************************************************************************)
ImagePost ==
  InstagramPost(Str(<<"17841">>), Str(<<"M", "u", "g">>), "IMAGE", Str(<<"https://cdn/1.jpg">>))
VideoPost == InstagramPost(Str(<<"17842">>), Undefined, "VIDEO", Str(<<"https://cdn/2.mp4">>))
NoUrlPost == InstagramPost(Str(<<"17843">>), Str(<<"T">>), "IMAGE", Undefined)

Feed == <<ImagePost, VideoPost, NoUrlPost>>

\* how the fetch of the media and the reading of its body settle: a response
\* with an OK status, a response with an error status, a rejection
ImageResults == {"ok", "not ok", "rejected"}

\* how the fetch of the posts and the reading of its body settle
InstagramResults ==
  {[kind |-> "rejected", data |-> <<>>],
   [kind |-> "no data", data |-> <<>>],
   [kind |-> "data", data |-> Feed]}

\* how the request of the API client settles: apiFetch rejects, or resolves
\* with a status that is OK or not and a body that is JSON or not, holding
\* success and error
GenerationResponses ==
  {[kind |-> "rejected", ok |-> FALSE, json |-> FALSE, success |-> FALSE, error |-> ""],
   [kind |-> "resolved", ok |-> FALSE, json |-> TRUE, success |-> FALSE, error |-> "Invalid input"],
   [kind |-> "resolved", ok |-> TRUE, json |-> TRUE, success |-> FALSE, error |-> ""],
   [kind |-> "resolved", ok |-> TRUE, json |-> TRUE, success |-> TRUE, error |-> ""]}

\* a || b on strings
OrString(a, b) == IF a # "" THEN a ELSE b

\* services/api generateListing: what it throws, or that it returns the body
apiGenerateListing(response) ==
  IF response.kind = "rejected" THEN [threw |-> TRUE, error |-> Error("Failed to fetch")]
  ELSE IF ~response.ok
  THEN [threw |-> TRUE,
        error |-> Error(OrString(IF response.json THEN response.error ELSE "statusText",
                                 "Failed to generate listing: statusText"))]
  ELSE IF ~response.json THEN [threw |-> TRUE, error |-> Error("Unexpected token")]
  ELSE [threw |-> FALSE, error |-> NoError]

\* Succeeded for every body that was read
SucceededUnchecked(response) == ~apiGenerateListing(response).threw

\* the try block of the Dashboard's generateListing gets as far as navigate
Succeeded(response) == ~apiGenerateListing(response).threw /\ response.success

\* what the Dashboard's catch block is handed
Caught(response) ==
  IF apiGenerateListing(response).threw THEN apiGenerateListing(response).error
  ELSE Error(OrString(response.error, "Failed to generate listing"))

GenerationErrorNotice(error) ==
  [kind |-> "error",
   message |-> IF error.isError THEN error.message
               ELSE "Failed to generate listing. Please try again."]

\* the payload handed to the API client: text_content and images
Payload(post, imageFile) ==
  [text_content |-> IF Truthy(post.caption) THEN post.caption.v ELSE <<>>,
   images |-> imageFile]

\* the buttons are there while the Dashboard is shown
Shown == navigations = <<>>

CanStartFetch(f) == fetches[f] = "idle" /\ \A d \in Fetches : d < f => fetches[d] # "idle"

CanStartGeneration(g) ==
  gen[g].pc = "idle" /\ \A d \in Generations : d < g => gen[d].pc # "idle"

\* FetchInstagramPosts leaving loading as it is
FetchInstagramPostsUnguarded(f) ==
  /\ Shown
  /\ ~loading
  /\ CanStartFetch(f)
  /\ fetches' = [fetches EXCEPT ![f] = "fetching"]
  /\ UNCHANGED <<form, page, calls, download, enc, api, posts, loading, generatingId, gen,
                 navigations, notices>>

\* a click on "Fetch My Posts" or "Refresh Posts", both disabled while
\* loading: fetchInstagramPosts up to its await
FetchInstagramPosts(f) ==
  /\ Shown
  /\ ~loading
  /\ CanStartFetch(f)
  /\ loading' = TRUE
  /\ fetches' = [fetches EXCEPT ![f] = "fetching"]
  /\ UNCHANGED <<form, page, calls, download, enc, api, posts, generatingId, gen,
                 navigations, notices>>

\* fetchInstagramPosts after its awaits: the posts or a notification, and the
\* finally block
InstagramSettled(f, result) ==
  /\ fetches[f] = "fetching"
  /\ fetches' = [fetches EXCEPT ![f] = "done"]
  /\ IF result.kind = "data"
     THEN /\ posts' = result.data
          /\ notices' = [notices EXCEPT !.fetch[f] =
                           Append(@, [kind |-> "success", message |-> "Loaded posts successfully!"])]
     ELSE /\ posts' = posts
          /\ notices' = [notices EXCEPT !.fetch[f] =
                           Append(@, [kind |-> "error",
                                      message |-> IF result.kind = "no data"
                                                  THEN "Failed to fetch posts. Please check your access token."
                                                  ELSE "Error fetching Instagram posts"])]
  /\ loading' = FALSE
  /\ UNCHANGED <<form, page, calls, download, enc, api, generatingId, gen, navigations>>

\* a click on the "Generate Listing" button of posts[i], disabled while
\* generatingId is its post's id: generateListing up to its first await, the
\* fetch of the image or the request
GenerateListing(g, i) ==
  /\ Shown
  /\ i \in 1..Len(posts)
  /\ generatingId # posts[i].id
  /\ CanStartGeneration(g)
  /\ generatingId' = posts[i].id
  /\ IF Truthy(posts[i].media_url) /\ posts[i].media_type = "IMAGE"
     THEN gen' = [gen EXCEPT ![g] = [@ EXCEPT !.pc = "image", !.post = posts[i]]]
     ELSE gen' = [gen EXCEPT ![g] = [@ EXCEPT !.pc = "request", !.post = posts[i],
                                               !.payload = Payload(posts[i], "undefined")]]
  /\ UNCHANGED <<form, page, calls, download, enc, api, posts, loading, fetches, navigations,
                 notices>>

\* the fetch of the image and the reading of its blob settle: the File is made
\* of whatever body came, or the inner catch block leaves imageFile undefined;
\* the request is sent
ImageSettled(g, result) ==
  /\ gen[g].pc = "image"
  /\ gen' = [gen EXCEPT ![g] = [@ EXCEPT !.pc = "request", !.image = result,
                                          !.payload = Payload(gen[g].post,
                                                        IF result = "rejected" THEN "undefined"
                                                        ELSE "file")]]
  /\ UNCHANGED <<form, page, calls, download, enc, api, posts, loading, generatingId, fetches,
                 navigations, notices>>

\* the request settles: navigate and the success notification, or the catch
\* block
GenerationSettled(g, response) ==
  /\ gen[g].pc = "request"
  /\ gen' = [gen EXCEPT ![g] = [@ EXCEPT !.pc = "done", !.response = response]]
  /\ IF Succeeded(response)
     THEN /\ navigations' = Append(navigations, [by |-> g, post |-> gen[g].post])
          /\ notices' = [notices EXCEPT !.gen[g] =
                           Append(@, [kind |-> "success",
                                      message |-> "Listing generated successfully!"])]
          /\ UNCHANGED generatingId
     ELSE /\ notices' = [notices EXCEPT !.gen[g] =
                           Append(@, GenerationErrorNotice(Caught(response)))]
          /\ generatingId' = Null
          /\ UNCHANGED navigations
  /\ UNCHANGED <<form, page, calls, download, enc, api, posts, loading, fetches>>

DashboardSpecInit ==
  /\ listing = MugListing
  /\ editor = 2
  /\ SessionInit
  /\ encIn = MugListing
  /\ EncInit
  /\ ApiIdle
  /\ DashboardInit

DashboardNext ==
  \/ \E f \in Fetches : FetchInstagramPosts(f)
  \/ \E f \in Fetches, result \in InstagramResults : InstagramSettled(f, result)
  \/ \E g \in Generations, i \in 1..Len(Feed) : GenerateListing(g, i)
  \/ \E g \in Generations, result \in ImageResults : ImageSettled(g, result)
  \/ \E g \in Generations, response \in GenerationResponses : GenerationSettled(g, response)

DashboardSpec == DashboardSpecInit /\ [][DashboardNext]_vars

(***************************************************************************)
(* C26                                                                     *)
(***************************************************************************)
\* C26: a failure to fetch the post's image does not abort generation: the
\* request is still sent, without images; an image is attached only when the
\* post is of type IMAGE with a media URL and the fetch of it succeeded; the
\* outcome of the request alone decides whether the generation succeeds.
C26_ImageFailureTolerated ==
  \A g \in Generations :
    /\ gen[g].image \in {"not ok", "rejected"}
         => (gen[g].pc \in {"request", "done"} /\ gen[g].payload.images = "undefined")
    /\ gen[g].payload.images = "file"
         => /\ gen[g].post.media_type = "IMAGE"
            /\ gen[g].post.media_url.t = "string"
            /\ gen[g].post.media_url.v # <<>>
            /\ gen[g].image = "ok"
    /\ gen[g].pc = "done"
         => ((\E k \in 1..Len(navigations) : navigations[k].by = g)
               <=> (gen[g].response.ok /\ gen[g].response.success))

(***************************************************************************)
(* C27                                                                     *)
(***************************************************************************)
\* C27: the Dashboard navigates to the listing editor only after a response
\* with success = true; on every failure (the request throws, the HTTP status
\* is not OK, or success = false) there is no navigation, exactly one error
\* notification is shown, and generatingId is set to null.
C27_NavigateOnSuccessOnly ==
  [][/\ \A g \in Generations :
          (gen[g].pc = "request" /\ gen'[g].pc = "done")
            => IF /\ gen'[g].response.kind = "resolved"
                  /\ gen'[g].response.ok
                  /\ gen'[g].response.success
               THEN navigations' = Append(navigations, [by |-> g, post |-> gen[g].post])
               ELSE /\ navigations' = navigations
                    /\ Len(notices'.gen[g]) = Len(notices.gen[g]) + 1
                    /\ notices'.gen[g][Len(notices'.gen[g])].kind = "error"
                    /\ SubSeq(notices'.gen[g], 1, Len(notices.gen[g])) = notices.gen[g]
                    /\ Len(notices'.gen[g]) = 1
                    /\ generatingId' = Null
     /\ navigations' # navigations
          => \E g \in Generations :
               /\ gen[g].pc = "request"
               /\ gen'[g].pc = "done"
               /\ gen'[g].response.success]_vars

C27_Witness ==
  /\ gen[1].pc = "done"
  /\ gen[1].response.kind = "resolved"
  /\ ~gen[1].response.ok
  /\ Len(notices.gen[1]) = 1
  /\ gen[2].pc = "done"
  /\ gen[2].response.success
  /\ Len(navigations) = 1
  /\ navigations[1].by = 2

(***************************************************************************)
(* C28                                                                     *)
(***************************************************************************)
\* a generation that has started and not settled
Generating(g) == gen[g].pc \in {"image", "request"}

\* C28: while a generation for a post p is in flight, generatingId is p.id,
\* for any interleaving of generations started on different posts and their
\* completions or failures.
C28_GeneratingIdOfPostInFlight ==
  \A g \in Generations : Generating(g) => generatingId = gen[g].post.id

(***************************************************************************)
(* C29                                                                     *)
(***************************************************************************)
Fetching(f) == fetches[f] = "fetching"

\* C29: loading is true exactly while a fetch of the posts is in flight, on
\* every exit path of fetchInstagramPosts; at most one fetch is in flight at a
\* time; a fetch that failed leaves the posts as they were.
C29_LoadingWhileFetching ==
  [][/\ loading' <=> \E f \in Fetches : Fetching(f)'
     /\ Cardinality({f \in Fetches : Fetching(f)'}) <= 1
     /\ \A f \in Fetches :
          (Fetching(f) /\ ~Fetching(f)')
            => /\ fetches'[f] = "done"
               /\ ~loading'
               /\ notices'.fetch[f][Len(notices'.fetch[f])].kind = "error" => posts' = posts]_vars

C29_Witness ==
  /\ posts = Feed
  /\ fetches[2] = "done"
  /\ Len(notices.fetch[2]) = 1
  /\ notices.fetch[2][1].kind = "error"
  /\ ~loading

(***************************************************************************)
(* C30                                                                     *)
(***************************************************************************)
\* every field but key is what it was
OthersKept(key) ==
  /\ DOMAIN listing' = DOMAIN listing
  /\ \A k \in DOMAIN listing : k # key => listing'[k] = listing[k]

\* C30: an edit of the Editor changes only the field it targets: the edit of
\* a field's input sets that field to the text typed and leaves every other
\* field as it was; the edit of bullet i replaces element i of bulletPoints
\* only, keeping its length and its other elements; an export leaves the
\* listing as it was.
C30_EditsTargetOnly ==
  [][/\ \A key \in KeySet, value \in TypedTexts :
          EditField(key, value) => (OthersKept(key) /\ listing'[key] = Str(value))
     /\ \A index \in 1..Len(listing.bulletPoints), value \in TypedTexts :
          EditBullet(index, value)
            => /\ OthersKept("bulletPoints")
               /\ Len(listing'.bulletPoints) = Len(listing.bulletPoints)
               /\ \A j \in 1..Len(listing.bulletPoints) :
                    listing'.bulletPoints[j] = IF j = index THEN value
                                               ELSE listing.bulletPoints[j]
     /\ (\E c \in Calls, format \in EditorFormats : HandleDownloadSync(c, format))
          => listing' = listing]_vars

C30_Witness ==
  /\ edits = 1
  /\ pc[1] = "done"
  /\ \E caption \in Captions :
       /\ Len(FromPost(editor, caption).bulletPoints) >= 3
       /\ listing = [FromPost(editor, caption) EXCEPT !.bulletPoints[2] = <<"x">>]
       /\ listing # FromPost(editor, caption)
       /\ arg[1] = listing

====
